---- MODULE Spec2Model ----
(***************************************************************************)
(* A model of the cpc-emu Z80 core: memory, register file, register        *)
(* operations, the instruction catalog, the dispatch tables and the        *)
(* fetch-decode-execute loop of Runtime::run.                              *)
(*                                                                         *)
(* Conventions                                                             *)
(*  - `components` is the RuntimeComponents bundle.  Its field `panicked`  *)
(*    is TRUE once the thread has panicked (index out of bounds, an        *)
(*    arithmetic overflow under overflow checks, panic!/assert!).          *)
(*  - `overflow_checks` is the build profile: with it, `+ - *` on the      *)
(*    fixed-width integers panic on overflow (cargo's dev/test profile);   *)
(*    without it they wrap (release profile).  The repository's manifest   *)
(*    is not part of the sources, so both builds are modelled.             *)
(*  - mem.locations is kept sparse: an address that is not in the domain   *)
(*    of `mem` holds the byte Memory::default() fills in (FillByte).       *)
(***************************************************************************)
EXTENDS Integers, Sequences, FiniteSets, TLC

VARIABLES
    components,       \* RuntimeComponents: mem, registers (and panicked)
    status,           \* "init" | "running" | "exited" | "panicked"
    log,              \* the calls made / instructions retired so far
    overflow_checks   \* build profile: TRUE = overflow panics, FALSE = wraps

vars == <<components, status, log, overflow_checks>>

(***************************************************************************)
(* Fixed-width integers and bit operations                                 *)
(***************************************************************************)
Byte == 0..255

Bit(v, k) == (v \div (2^k)) % 2

\* u8 & u8
BitAnd(x, y) ==
    Bit(x,0)*Bit(y,0) + 2*Bit(x,1)*Bit(y,1) + 4*Bit(x,2)*Bit(y,2)
    + 8*Bit(x,3)*Bit(y,3) + 16*Bit(x,4)*Bit(y,4) + 32*Bit(x,5)*Bit(y,5)
    + 64*Bit(x,6)*Bit(y,6) + 128*Bit(x,7)*Bit(y,7)

\* u8 | u8
BitOr(x, y) == x + y - BitAnd(x, y)

\* u8 ^ u8
BitXor(x, y) == x + y - 2 * BitAnd(x, y)

(***************************************************************************)
(* utils.rs                                                                *)
(***************************************************************************)
combine_to_double_byte(high_byte, low_byte) == high_byte * 256 + low_byte

\* <<high, low>>
split_double_byte(value) == <<(value \div 256) % 256, value % 256>>

\* u8 as i8
signed(value) == IF value >= 128 THEN value - 256 ELSE value

(***************************************************************************)
(* Memory                                                                  *)
(***************************************************************************)
\* locations: [u8; 0xFFFF] -- valid indices are 0 .. MemSize-1
MemSize == 65535

\* Memory::default() fills every location with 0x01
FillByte == 1

MemoryDefault == [j \in {} |-> FillByte]

InBounds(index) == index >= 0 /\ index < MemSize

\* mem.locations[index], for an index in bounds
MemGet(mem, index) == IF index \in DOMAIN mem THEN mem[index] ELSE FillByte

\* mem.locations[index] = value, for an index in bounds
MemSet(mem, index, value) ==
    IF value = FillByte
    THEN [j \in (DOMAIN mem) \ {index} |-> mem[j]]
    ELSE [j \in (DOMAIN mem) \cup {index} |-> IF j = index THEN value ELSE mem[j]]

Panic(c) == [c EXCEPT !.panicked = TRUE]

\* components.mem.locations[index] = value; panics when index is out of bounds
Store(c, index, value) ==
    IF c.panicked THEN c
    ELSE IF ~InBounds(index) THEN Panic(c)
    ELSE [c EXCEPT !.mem = MemSet(c.mem, index, value)]

(***************************************************************************)
(* FlagsRegister                                                           *)
(*   Bit       7  6  5  4  3  2    1  0                                    *)
(*   Position  S  Z  /  H  /  P/V  N  C                                    *)
(* The setters take and return the value of F.                             *)
(***************************************************************************)
Set == "Set"
Unset == "Unset"

set_carry(f, value) == IF value = Set THEN BitOr(f, 1) ELSE BitAnd(f, 255 - 1)

set_add_subtract(f, value) == IF value = Set THEN BitOr(f, 2) ELSE BitAnd(f, 255 - 2)

set_parity_overflow(f, value) == IF value = Set THEN BitOr(f, 4) ELSE BitAnd(f, 255 - 4)

set_half_carry(f, value) == IF value = Set THEN BitOr(f, 16) ELSE BitAnd(f, 255 - 16)

\* set_zero with a mask that also covers the unused bit 5
set_zero_with_bit_5(f, value) == IF value = Set THEN BitOr(f, 96) ELSE BitAnd(f, 255 - 96)

set_zero(f, value) == IF value = Set THEN BitOr(f, 64) ELSE BitAnd(f, 255 - 64)

set_sign(f, value) == IF value = Set THEN BitOr(f, 128) ELSE BitAnd(f, 255 - 128)

get_carry(f) == IF BitAnd(f, 1) = 1 THEN Set ELSE Unset

get_add_subtract(f) == IF BitAnd(f, 2) = 2 THEN Set ELSE Unset

get_parity_overflow(f) == IF BitAnd(f, 4) = 4 THEN Set ELSE Unset

get_half_carry(f) == IF BitAnd(f, 16) = 16 THEN Set ELSE Unset

get_zero(f) == IF BitAnd(f, 64) = 64 THEN Set ELSE Unset

get_sign(f) == IF BitAnd(f, 128) = 128 THEN Set ELSE Unset

\* if cond { FlagValue::Set } else { FlagValue::Unset }
FlagIf(cond) == IF cond THEN Set ELSE Unset

(***************************************************************************)
(* ProgramCounter                                                          *)
(***************************************************************************)
\* pc.set(value)
pc_set(c, value) == IF c.panicked THEN c ELSE [c EXCEPT !.registers.pc = value]

\* pc.inc(): self.value = self.value + 1 on a u16
pc_inc(c) ==
    IF c.panicked THEN c
    ELSE IF c.registers.pc + 1 > 65535
         THEN IF overflow_checks THEN Panic(c) ELSE [c EXCEPT !.registers.pc = 0]
         ELSE [c EXCEPT !.registers.pc = c.registers.pc + 1]

(***************************************************************************)
(* StackPointer (location: usize)                                          *)
(***************************************************************************)
\* Variant of PushByte that stores before it decrements (post-decrement);
\* the byte layout property C4 must reject it.
PushByte_post_decrement(c, byte) ==
    IF c.panicked THEN c
    ELSE IF c.registers.sp = 0 THEN Panic(Store(c, 0, byte))
    ELSE [Store(c, c.registers.sp, byte) EXCEPT !.registers.sp = c.registers.sp - 1]

\* self.location -= 1; memory.locations[self.location] = byte
\* At location 0 the subtraction overflows: a panic under overflow checks,
\* and otherwise usize::MAX, which is out of bounds for the store.
PushByte(c, byte) ==
    IF c.panicked THEN c
    ELSE IF c.registers.sp = 0 THEN Panic(c)
    ELSE Store([c EXCEPT !.registers.sp = c.registers.sp - 1], c.registers.sp - 1, byte)

\* sp.push(memory, value): high byte first, then low byte, descending
push(c, value) ==
    LET hl == split_double_byte(value)
    IN  PushByte(PushByte(c, hl[1]), hl[2])

\* Variant of pop that assembles the two bytes in the other order; the round
\* trip property C3 must reject it.
pop_swapped(c) ==
    LET s == c.registers.sp
    IN  IF c.panicked \/ ~InBounds(s) \/ ~InBounds(s + 1)
        THEN [c |-> Panic(c), value |-> 0]
        ELSE [c |-> [c EXCEPT !.registers.sp = s + 2],
              value |-> combine_to_double_byte(MemGet(c.mem, s), MemGet(c.mem, s + 1))]

\* sp.pop(memory): returns [c |-> components afterwards, value |-> u16]
pop(c) ==
    LET s == c.registers.sp
    IN  IF c.panicked THEN [c |-> c, value |-> 0]
        ELSE IF ~InBounds(s) THEN [c |-> Panic(c), value |-> 0]
        ELSE IF ~InBounds(s + 1)
             THEN [c |-> Panic([c EXCEPT !.registers.sp = s + 1]), value |-> 0]
        ELSE [c |-> [c EXCEPT !.registers.sp = s + 2],
              value |-> combine_to_double_byte(MemGet(c.mem, s + 1), MemGet(c.mem, s))]

\* sp.set(value)
sp_set(c, value) == [c EXCEPT !.registers.sp = value]

(***************************************************************************)
(* Register: get/set by register name ("a", "b", ..., "f")                 *)
(***************************************************************************)
\* reg.get()
Get(c, r) == c.registers[r]

\* reg.set(value)
SetReg(c, r, value) == [c EXCEPT !.registers[r] = value]

(***************************************************************************)
(* Accumulator: the operations on registers.a that also mutate registers.f *)
(***************************************************************************)
\* a.sub_value(value, flags)
sub_value(c, value) ==
    LET a     == c.registers.a
        carry == FlagIf(a + value > 65535)
    IN  IF c.panicked THEN c
        ELSE IF a - value < 0 /\ overflow_checks THEN Panic(c)
        ELSE [c EXCEPT !.registers.a = (a - value) % 256,
                       !.registers.f = set_carry(
                            set_parity_overflow(@, FlagIf(BitAnd(value, 128) = 128)),
                            carry)]

\* a.sub_value_and_carry(value, flags)
sub_value_and_carry(c, value) ==
    LET v == value + (IF get_carry(c.registers.f) = Set THEN 1 ELSE 0)
    IN  IF v > 255
        THEN IF overflow_checks THEN Panic(c) ELSE sub_value(c, v % 256)
        ELSE sub_value(c, v)

\* a.and that leaves Carry, Add/Subtract and Half-carry as they were
and_value_keeping_flags(c, value) ==
    LET r == BitAnd(c.registers.a, value)
    IN  [c EXCEPT !.registers.a = r,
                  !.registers.f = set_parity_overflow(@, FlagIf(BitAnd(r, 128) > 1))]

\* a.and(value, flags)   (named `and` in the source)
and_value(c, value) ==
    LET r  == BitAnd(c.registers.a, value)
        f1 == set_half_carry(
                set_add_subtract(set_carry(c.registers.f, Unset), Unset), Set)
    IN  [c EXCEPT !.registers.a = r,
                  !.registers.f = set_parity_overflow(f1, FlagIf(BitAnd(r, 128) > 1))]

\* a.or(reg, flags)
or(c, reg) ==
    [c EXCEPT !.registers.a = BitOr(@, Get(c, reg)),
              !.registers.f = set_parity_overflow(@, FlagIf(BitAnd(Get(c, reg), 128) = 128))]

\* a.or_a(flags)
or_a(c) ==
    LET r == BitOr(c.registers.a, c.registers.a)
    IN  [c EXCEPT !.registers.a = r,
                  !.registers.f = set_parity_overflow(@, FlagIf(BitAnd(r, 128) = 128))]

\* a.compare_val(val, flags)
compare_val(c, val) ==
    [c EXCEPT !.registers.f = set_parity_overflow(@, FlagIf(c.registers.a - val < -128))]

\* a.compare_reg(reg, flags)
compare_reg(c, reg) ==
    [c EXCEPT !.registers.f =
        set_parity_overflow(@, FlagIf(c.registers.a - Get(c, reg) < -128))]

\* the tail shared by xor and xor_address_from_reg_pair: a ^= val, then P/V, Z, S
XorWith(c, val) ==
    LET r == BitXor(c.registers.a, val)
    IN  [c EXCEPT !.registers.a = r,
                  !.registers.f =
                      set_sign(
                        set_zero(
                          set_parity_overflow(@, FlagIf(BitAnd(val, 128) = 128)),
                          FlagIf(r = 0)),
                        FlagIf(BitAnd(r, 128) = 128))]

\* a.xor(reg, flags)
xor(c, reg) == XorWith(c, Get(c, reg))

\* a.xor_address_from_reg_pair(mem, (hi, lo), flags)
xor_address_from_reg_pair(c, hi, lo) ==
    LET location == combine_to_double_byte(Get(c, hi), Get(c, lo))
    IN  IF ~InBounds(location) THEN Panic(c)
        ELSE XorWith(c, MemGet(c.mem, location))

\* a.xor_a(flags)
xor_a(c) ==
    LET r == BitXor(c.registers.a, c.registers.a)
    IN  [c EXCEPT !.registers.a = r,
                  !.registers.f = set_parity_overflow(@, FlagIf(BitAnd(r, 128) = 128))]

(***************************************************************************)
(* RegisterOperations                                                      *)
(***************************************************************************)
\* RegisterOperations::dec(reg, flags)
dec(c, r) ==
    LET v == (Get(c, r) - 1) % 256
    IN  IF Get(c, r) - 1 < 0 /\ overflow_checks THEN Panic(c)
        ELSE [c EXCEPT !.registers[r] = v,
                       !.registers.f =
                           set_sign(
                             set_zero(
                               set_add_subtract(
                                 set_parity_overflow(@, FlagIf(BitAnd(v, 128) = 128)),
                                 Set),
                               FlagIf(v = 0)),
                             FlagIf(signed(v) < 0))]

\* RegisterOperations::dec_register_pair((hi, lo), flags)
dec_register_pair(c, hi, lo) ==
    LET value == combine_to_double_byte(Get(c, hi), Get(c, lo)) - 1
        hl    == split_double_byte(value % 65536)
    IN  IF value < 0 /\ overflow_checks THEN Panic(c)
        ELSE [c EXCEPT !.registers[hi] = hl[1],
                       !.registers[lo] = hl[2],
                       !.registers.f = set_add_subtract(@, Set)]

\* RegisterOperations::inc(reg, flags)
inc(c, r) ==
    LET half_carry == BitAnd(BitAnd(Get(c, r), 15) + BitAnd(1, 15), 16) = 16
        v          == (Get(c, r) + 1) % 256
    IN  IF Get(c, r) + 1 > 255 /\ overflow_checks THEN Panic(c)
        ELSE [c EXCEPT !.registers[r] = v,
                       !.registers.f =
                           set_add_subtract(
                             set_half_carry(
                               set_parity_overflow(@, FlagIf(BitAnd(v, 128) = 128)),
                               FlagIf(half_carry)),
                             Unset)]

\* RegisterOperations::inc_register_pair((hi, lo), flags): the flag updates are
\* commented out in the source
inc_register_pair(c, hi, lo) ==
    LET value == combine_to_double_byte(Get(c, hi), Get(c, lo)) + 1
        hl    == split_double_byte(value % 65536)
    IN  IF value > 65535 /\ overflow_checks THEN Panic(c)
        ELSE [c EXCEPT !.registers[hi] = hl[1], !.registers[lo] = hl[2]]

ld_register_with_value(c, r, value) == SetReg(c, r, value)

ld_register_from_register(c, source, target) == SetReg(c, target, Get(c, source))

ld_register_from_addr(c, r, addr) ==
    IF ~InBounds(addr) THEN Panic(c) ELSE SetReg(c, r, MemGet(c.mem, addr))

ld_register_from_addr_with_register_pair(c, r, hi, lo) ==
    LET addr == combine_to_double_byte(Get(c, hi), Get(c, lo))
    IN  IF ~InBounds(addr) THEN Panic(c) ELSE SetReg(c, r, MemGet(c.mem, addr))

ld_register_pair_with_value(c, hi, lo, value) ==
    LET hl == split_double_byte(value)
    IN  [c EXCEPT !.registers[hi] = hl[1], !.registers[lo] = hl[2]]

\* reads one byte and loads the pair with combine_to_double_byte(0x0, byte)
ld_register_pair_from_addr(c, hi, lo, addr) ==
    IF ~InBounds(addr) THEN Panic(c)
    ELSE ld_register_pair_with_value(c, hi, lo,
             combine_to_double_byte(0, MemGet(c.mem, addr)))

ld_addr_from_reg_pair_with_value(c, hi, lo, value) ==
    Store(c, combine_to_double_byte(Get(c, hi), Get(c, lo)), value)

ld_addr_from_value_with_register(c, value, r) == Store(c, value, Get(c, r))

\* only reg_pair.1 (the low register) is stored
ld_addr_from_value_with_register_pair(c, value, hi, lo) == Store(c, value, Get(c, lo))

ld_addr_from_reg_pair_with_register(c, hi, lo, r) ==
    Store(c, combine_to_double_byte(Get(c, hi), Get(c, lo)), Get(c, r))

\* the pair addition with the carry taken from the wrapped 16-bit total
AddPair_carry_after_wrap(c, thi, tlo, val1, val2) ==
    LET total_as_u32 == val1 + val2
        carry        == FlagIf(total_as_u32 % 65536 > 65535)
        half_carry   == FlagIf(8 * Bit(val1, 3) = 1 /\ 8 * Bit(val2, 3) = 1)
        hl           == split_double_byte(total_as_u32 % 65536)
    IN  [c EXCEPT !.registers[thi] = hl[1],
                  !.registers[tlo] = hl[2],
                  !.registers.f =
                      set_add_subtract(set_half_carry(set_carry(@, carry), half_carry), Set)]

\* the tail shared by dbl_register_pair and add_register_pairs, which differ
\* only in where the second operand comes from
AddPair(c, thi, tlo, val1, val2) ==
    LET total_as_u32 == val1 + val2
        carry        == FlagIf(val1 + val2 > 65535)
        \* (val1 & 8 == 1) && (val2 & 8 == 1): val & 8 is 0 or 8
        half_carry   == FlagIf(8 * Bit(val1, 3) = 1 /\ 8 * Bit(val2, 3) = 1)
        hl           == split_double_byte(total_as_u32 % 65536)
    IN  [c EXCEPT !.registers[thi] = hl[1],
                  !.registers[tlo] = hl[2],
                  !.registers.f =
                      set_add_subtract(set_half_carry(set_carry(@, carry), half_carry), Set)]

dbl_register_pair(c, hi, lo) ==
    LET val == combine_to_double_byte(Get(c, hi), Get(c, lo))
    IN  AddPair(c, hi, lo, val, val)

add_register_pairs(c, thi, tlo, shi, slo) ==
    AddPair(c, thi, tlo,
            combine_to_double_byte(Get(c, thi), Get(c, tlo)),
            combine_to_double_byte(Get(c, shi), Get(c, slo)))

push_register_pair(c, hi, lo) ==
    push(c, combine_to_double_byte(Get(c, hi), Get(c, lo)))

pop_register_pair(c, hi, lo) ==
    LET p  == pop(c)
        vv == split_double_byte(p.value)
    IN  IF p.c.panicked THEN p.c
        ELSE [p.c EXCEPT !.registers[hi] = vv[1], !.registers[lo] = vv[2]]

\* Variant of call that pushes the address of the CALL instruction itself
\* (the program counter before the engine advanced it); the round trip
\* property C6 must reject it.
call_pushing_own_address(c, value) ==
    pc_set(push(c, (c.registers.pc + 65536 - 3) % 65536), value)

\* RegisterOperations::call(value, sp, pc, mem)
call(c, value) == pc_set(push(c, c.registers.pc), value)

\* RegisterOperations::srl(reg, flags)
srl(c, r) ==
    [c EXCEPT !.registers.f = set_carry(@, FlagIf(BitAnd(Get(c, r), 1) = 1)),
              !.registers[r] = BitAnd(Get(c, r) \div 2, 127)]

(***************************************************************************)
(* DataBus: both methods are stubs in the source                           *)
(***************************************************************************)
\* data_bus.write(port, value): "stub for now"
data_bus_write(c, port, value) == c

\* data_bus.read(port): "dummy value for now" (0xEF)
data_bus_read(port) == 239

(***************************************************************************)
(* Instruction catalog.  Operands::None is <<>>, Operands::One(x) is <<x>>,*)
(* Operands::Two(x, y) is <<x, y>>.  execute returns the components        *)
(* afterwards, the cycle cost, and whether the operands did not have the   *)
(* shape the instruction matches on (its effect is then skipped).          *)
(***************************************************************************)
Done(c, n) == [components |-> c, cycles |-> n, wrong_operands |-> FALSE]

\* the `_ => error!("Wrong operands ...")` arm, or an `if let` that does not match
WrongOperands(c, n) == [components |-> c, cycles |-> n, wrong_operands |-> TRUE]

\* the two operand bytes as instructions combine them: (second, first)
Word(operands) == combine_to_double_byte(operands[2], operands[1])

\* pc.get().wrapping_add(signed(value) as u16)
JumpRelative(c, value) == pc_set(c, (c.registers.pc + signed(value)) % 65536)

\* the body of every conditional return: pc.set(sp.pop(mem)); 11, else 5
RetIf(c, taken) ==
    IF taken
    THEN LET p == pop(c) IN Done(pc_set(p.c, p.value), 11)
    ELSE Done(c, 5)

\* NOP that takes one more cycle while interrupts are enabled
_0x00_polling_interrupts(c, operands) == Done(c, IF c.registers.iff1 THEN 5 ELSE 4)

\* #00 to 0F
_0x00(c, operands) == Done(c, 4)

_0x01(c, operands) ==
    IF Len(operands) = 2
    THEN Done(ld_register_pair_with_value(c, "b", "c", Word(operands)), 10)
    ELSE WrongOperands(c, 10)

\* metadata "LD (BC),A"; the body loads A from the address in BC
_0x02(c, operands) ==
    Done(ld_register_from_addr_with_register_pair(c, "a", "b", "c"), 7)

_0x03(c, operands) == Done(inc_register_pair(c, "b", "c"), 6)

_0x04(c, operands) == Done(inc(c, "b"), 4)

_0x05(c, operands) == Done(dec(c, "b"), 4)

_0x06(c, operands) ==
    IF Len(operands) = 1
    THEN Done(ld_register_with_value(c, "b", operands[1]), 7)
    ELSE WrongOperands(c, 7)

\* RLCA as a plain shift: bit 7 reaches the carry but not bit 0
_0x07_shift_only(c, operands) ==
    LET value == c.registers.a
        bit_7 == BitAnd(value, 128) \div 128
    IN  Done([c EXCEPT
                !.registers.a = (value * 2) % 256,
                !.registers.f = set_carry(@, FlagIf(bit_7 = 1))], 4)

\* RLCA: (value << 1) | bit_7 on a u8
_0x07(c, operands) ==
    LET value == c.registers.a
        bit_7 == BitAnd(value, 128) \div 128
    IN  Done([c EXCEPT
                !.registers.a = BitOr((value * 2) % 256, bit_7),
                !.registers.f = set_carry(@, FlagIf(bit_7 = 1))], 4)

\* EX AF,AF'
_0x08(c, operands) ==
    Done([c EXCEPT !.registers.a  = c.registers.a_,
                            !.registers.f  = c.registers.f_,
                            !.registers.a_ = c.registers.a,
                            !.registers.f_ = c.registers.f], 4)

_0x09(c, operands) ==
    Done(add_register_pairs(c, "h", "l", "b", "c"), 11)

\* DJNZ
_0x10(c, operands) ==
    IF Len(operands) = 1
    THEN LET b == c.registers.b
         IN  IF b - 1 < 0 /\ overflow_checks THEN Done(Panic(c), 8)
             ELSE LET c1 == SetReg(c, "b", (b - 1) % 256)
                  IN  IF (b - 1) % 256 # 0
                      THEN Done(JumpRelative(c1, operands[1]), 13)
                      ELSE Done(c1, 8)
    ELSE WrongOperands(c, 8)

_0x0B(c, operands) == Done(dec_register_pair(c, "b", "c"), 6)

_0x0C(c, operands) == Done(inc(c, "c"), 4)

_0x0D(c, operands) == Done(dec(c, "c"), 4)

_0x0E(c, operands) ==
    IF Len(operands) = 1
    THEN Done(ld_register_with_value(c, "c", operands[1]), 7)
    ELSE WrongOperands(c, 7)

\* #10 to 1F
_0x11(c, operands) ==
    IF Len(operands) = 2
    THEN Done(ld_register_pair_with_value(c, "d", "e", Word(operands)), 10)
    ELSE WrongOperands(c, 10)

\* JR: pc.set(pc.get() + (op1 as u16))
_0x18(c, operands) ==
    IF Len(operands) = 1
    THEN LET val == c.registers.pc + operands[1]
         IN  IF val > 65535 /\ overflow_checks THEN Done(Panic(c), 12)
             ELSE Done(pc_set(c, val % 65536), 12)
    ELSE WrongOperands(c, 12)

_0x13(c, operands) == Done(inc_register_pair(c, "d", "e"), 6)

_0x19(c, operands) ==
    Done(add_register_pairs(c, "h", "l", "d", "e"), 11)

\* metadata "LD A,(DE)"; the body passes the pair (b, c)
_0x1A(c, operands) ==
    Done(ld_register_from_addr_with_register_pair(c, "a", "b", "c"), 7)

\* #20 to 2F
\* JR NZ
_0x20(c, operands) ==
    IF Len(operands) = 1
    THEN IF get_zero(c.registers.f) = Unset
         THEN Done(JumpRelative(c, operands[1]), 12)
         ELSE Done(c, 7)
    ELSE WrongOperands(c, 7)

_0x21(c, operands) ==
    IF Len(operands) = 2
    THEN Done(ld_register_pair_with_value(c, "h", "l", Word(operands)), 10)
    ELSE WrongOperands(c, 10)

\* LD (nn),HL: the address is combine_to_double_byte(op1, op2)
_0x22(c, operands) ==
    IF Len(operands) = 2
    THEN Done(ld_addr_from_value_with_register_pair(c,
                  combine_to_double_byte(operands[1], operands[2]), "h", "l"), 16)
    ELSE WrongOperands(c, 16)

_0x23(c, operands) == Done(inc_register_pair(c, "h", "l"), 6)

_0x29(c, operands) == Done(dbl_register_pair(c, "h", "l"), 11)

_0x2B(c, operands) == Done(dec_register_pair(c, "h", "l"), 6)

_0x2D(c, operands) == Done(dec(c, "l"), 4)

\* CPL
_0x2F(c, operands) ==
    Done(SetReg(c, "a", 255 - c.registers.a), 4)

\* #30 to 3F
\* JR NC
_0x30(c, operands) ==
    IF Len(operands) = 1
    THEN IF get_carry(c.registers.f) = Unset
         THEN Done(JumpRelative(c, operands[1]), 12)
         ELSE Done(c, 7)
    ELSE WrongOperands(c, 7)

_0x31(c, operands) ==
    IF Len(operands) = 2
    THEN Done(sp_set(c, Word(operands)), 10)
    ELSE WrongOperands(c, 10)

_0x32(c, operands) ==
    IF Len(operands) = 2
    THEN Done(ld_addr_from_value_with_register(c, Word(operands), "a"), 13)
    ELSE WrongOperands(c, 13)

_0x36(c, operands) ==
    IF Len(operands) = 1
    THEN Done(ld_addr_from_reg_pair_with_value(c, "h", "l", operands[1]), 10)
    ELSE WrongOperands(c, 10)

_0x3A(c, operands) ==
    IF Len(operands) = 2
    THEN Done(ld_register_from_addr(c, "a", Word(operands)), 13)
    ELSE WrongOperands(c, 13)

_0x3C(c, operands) == Done(inc(c, "a"), 4)

_0x3E(c, operands) ==
    IF Len(operands) = 1
    THEN Done(ld_register_with_value(c, "a", operands[1]), 7)
    ELSE WrongOperands(c, 7)

\* #40 to 7F: register-to-register and (HL) loads
_0x41(c, operands) == Done(ld_register_from_register(c, "c", "b"), 4)

_0x47(c, operands) == Done(ld_register_from_register(c, "a", "b"), 4)

_0x4C(c, operands) == Done(ld_register_from_register(c, "h", "c"), 4)

_0x4E(c, operands) ==
    Done(ld_register_from_addr_with_register_pair(c, "c", "h", "l"), 7)

_0x56(c, operands) ==
    Done(ld_register_from_addr_with_register_pair(c, "d", "h", "l"), 7)

_0x5E(c, operands) ==
    Done(ld_register_from_addr_with_register_pair(c, "e", "h", "l"), 7)

_0x67(c, operands) == Done(ld_register_from_register(c, "a", "h"), 4)

_0x6F(c, operands) == Done(ld_register_from_register(c, "a", "l"), 4)

_0x70(c, operands) == Done(ld_addr_from_reg_pair_with_register(c, "h", "l", "b"), 7)

_0x71(c, operands) == Done(ld_addr_from_reg_pair_with_register(c, "h", "l", "c"), 7)

_0x72(c, operands) == Done(ld_addr_from_reg_pair_with_register(c, "h", "l", "d"), 7)

_0x73(c, operands) == Done(ld_addr_from_reg_pair_with_register(c, "h", "l", "e"), 7)

_0x77(c, operands) == Done(ld_addr_from_reg_pair_with_register(c, "h", "l", "a"), 7)

_0x78(c, operands) == Done(ld_register_from_register(c, "b", "a"), 4)

_0x79(c, operands) == Done(ld_register_from_register(c, "c", "a"), 4)

_0x7C(c, operands) == Done(ld_register_from_register(c, "h", "a"), 4)

_0x7D(c, operands) == Done(ld_register_from_register(c, "l", "a"), 4)

_0x7E(c, operands) ==
    Done(ld_register_from_addr_with_register_pair(c, "a", "h", "l"), 7)

\* #A0 to BF
_0xA9(c, operands) == Done(xor(c, "c"), 4)

_0xAF(c, operands) == Done(xor_a(c), 4)

\* metadata "OR (HL)"; the body calls xor_address_from_reg_pair
_0xB6(c, operands) == Done(xor_address_from_reg_pair(c, "h", "l"), 7)

\* metadata "OR A"; the body calls xor_address_from_reg_pair
_0xB7(c, operands) == Done(xor_address_from_reg_pair(c, "h", "l"), 4)

_0xBB(c, operands) == Done(compare_reg(c, "e"), 4)

\* #C0 to CF
\* RET NZ
_0xC0(c, operands) == RetIf(c, get_zero(c.registers.f) = Unset)

\* JP NZ: `if let Operands::Two(low, high)` inside the flag test
\* Variant of JP NZ that jumps when the zero flag is set; the property C7
\* must reject it.
_0xC2_when_zero_set(c, operands) ==
    IF get_zero(c.registers.f) = Set
    THEN IF Len(operands) = 2
         THEN Done(pc_set(c, Word(operands)), 10)
         ELSE WrongOperands(c, 10)
    ELSE Done(c, 10)

_0xC2(c, operands) ==
    IF get_zero(c.registers.f) = Unset
    THEN IF Len(operands) = 2
         THEN Done(pc_set(c, Word(operands)), 10)
         ELSE WrongOperands(c, 10)
    ELSE Done(c, 10)

\* JP
_0xC3(c, operands) ==
    IF Len(operands) = 2
    THEN Done(pc_set(c, Word(operands)), 10)
    ELSE WrongOperands(c, 10)

\* PUSH BC
_0xC5(c, operands) == Done(push_register_pair(c, "b", "c"), 11)

\* RET Z
_0xC8(c, operands) == RetIf(c, get_zero(c.registers.f) = Set)

\* RET
_0xC9(c, operands) == LET p == pop(c) IN Done(pc_set(p.c, p.value), 10)

\* CALL
_0xCD(c, operands) ==
    IF Len(operands) = 2
    THEN Done(call(c, Word(operands)), 17)
    ELSE WrongOperands(c, 17)

\* POP BC
_0xC1(c, operands) == Done(pop_register_pair(c, "b", "c"), 10)

\* #D0 to DF
\* POP DE
_0xD1(c, operands) == Done(pop_register_pair(c, "d", "e"), 10)

\* PUSH DE
_0xD5(c, operands) == Done(push_register_pair(c, "d", "e"), 11)

\* SUB n: panic!("Wrong operand ...") on any other operand shape
_0xD6(c, operands) ==
    IF Len(operands) = 1
    THEN Done(sub_value(c, operands[1]), 17)
    ELSE WrongOperands(Panic(c), 17)

\* RET C
_0xD8(c, operands) == RetIf(c, get_carry(c.registers.f) = Set)

\* EXX that exchanges B, C, D, E and H but copies L' into L without saving L
_0xD9_losing_l(c, operands) ==
    Done([c EXCEPT !.registers.b  = c.registers.b_,
                   !.registers.c  = c.registers.c_,
                   !.registers.d  = c.registers.d_,
                   !.registers.e  = c.registers.e_,
                   !.registers.h  = c.registers.h_,
                   !.registers.l  = c.registers.l_,
                   !.registers.b_ = c.registers.b,
                   !.registers.c_ = c.registers.c,
                   !.registers.d_ = c.registers.d,
                   !.registers.e_ = c.registers.e,
                   !.registers.h_ = c.registers.h], 4)

\* EXX
_0xD9(c, operands) ==
    Done([c EXCEPT !.registers.b  = c.registers.b_,
                   !.registers.c  = c.registers.c_,
                   !.registers.d  = c.registers.d_,
                   !.registers.e  = c.registers.e_,
                   !.registers.h  = c.registers.h_,
                   !.registers.l  = c.registers.l_,
                   !.registers.b_ = c.registers.b,
                   !.registers.c_ = c.registers.c,
                   !.registers.d_ = c.registers.d,
                   !.registers.e_ = c.registers.e,
                   !.registers.h_ = c.registers.h,
                   !.registers.l_ = c.registers.l], 4)

\* SBC A,n: panic!("Wrong operand ...") on any other operand shape
_0xDE(c, operands) ==
    IF Len(operands) = 1
    THEN Done(sub_value_and_carry(c, operands[1]), 7)
    ELSE WrongOperands(Panic(c), 7)

\* #E0 to EF
\* metadata "PUSH HL"; the body passes the pair (h, h)
_0xE5(c, operands) == Done(push_register_pair(c, "h", "h"), 11)

\* AND n
_0xE6(c, operands) ==
    IF Len(operands) = 1
    THEN Done(and_value(c, operands[1]), 7)
    ELSE WrongOperands(c, 7)

\* EX DE,HL
_0xEB(c, operands) ==
    Done([c EXCEPT !.registers.d = c.registers.h,
                   !.registers.e = c.registers.l,
                   !.registers.h = c.registers.d,
                   !.registers.l = c.registers.e], 4)

\* #F0 to FF
\* RET P
_0xF0(c, operands) == RetIf(c, get_sign(c.registers.f) = Unset)

\* JP P that matches on a single operand byte; the operand-shape property
\* C40 must reject it.
_0xF2_matching_one(c, operands) ==
    IF get_sign(c.registers.f) = Set
    THEN IF Len(operands) = 1
         THEN Done(pc_set(c, operands[1]), 10)
         ELSE WrongOperands(c, 10)
    ELSE Done(c, 10)

\* metadata "JP P,nn"; the body jumps when get_sign() == FlagValue::Set
_0xF2(c, operands) ==
    IF get_sign(c.registers.f) = Set
    THEN IF Len(operands) = 2
         THEN Done(pc_set(c, Word(operands)), 10)
         ELSE WrongOperands(c, 10)
    ELSE Done(c, 10)

\* DI
_0xF3(c, operands) ==
    Done([c EXCEPT !.registers.iff1 = FALSE, !.registers.iff2 = FALSE], 4)

\* PUSH AF
_0xF5(c, operands) == Done(push_register_pair(c, "a", "f"), 11)

\* RET M
_0xF8(c, operands) == RetIf(c, get_sign(c.registers.f) = Set)

\* EI that enables the first flip-flop only
_0xFB_iff1_only(c, operands) ==
    Done([c EXCEPT !.registers.iff1 = TRUE], 4)

\* EI
_0xFB(c, operands) ==
    Done([c EXCEPT !.registers.iff1 = TRUE, !.registers.iff2 = TRUE], 4)

\* CP n
_0xFE(c, operands) ==
    IF Len(operands) = 1
    THEN Done(compare_val(c, operands[1]), 7)
    ELSE WrongOperands(c, 7)

(***************************************************************************)
(* Extended instructions (#ED xx)                                          *)
(***************************************************************************)
\* IM 0
_0xED46(c, operands) == Done([c EXCEPT !.registers.interrupt_mode = 0], 10)

\* OUT (C),C
_0xED49(c, operands) ==
    Done(data_bus_write(c, combine_to_double_byte(c.registers.b, c.registers.c),
                        c.registers.c), 12)

\* IM 1
_0xED56(c, operands) == Done([c EXCEPT !.registers.interrupt_mode = 1], 10)

\* LD DE,(nn)
_0xED5B(c, operands) ==
    IF Len(operands) = 2
    THEN Done(ld_register_pair_from_addr(c, "d", "e", Word(operands)), 20)
    ELSE WrongOperands(c, 20)

\* IN A,(C)
_0xED78(c, operands) ==
    Done(SetReg(c, "a",
           data_bus_read(combine_to_double_byte(c.registers.b, c.registers.c))), 12)

\* OUT (C),A
_0xED79(c, operands) ==
    Done(data_bus_write(c, combine_to_double_byte(c.registers.b, c.registers.c),
                        c.registers.a), 12)

\* One pass through the body of LDIR's loop, on s = [c, repeats, done]:
\* copy mem[HL] to mem[DE], BC -= 1, break when BC = 0, else repeats += 1.
LdirIteration(s) ==
    LET c           == s.c
        source_addr == combine_to_double_byte(c.registers.h, c.registers.l)
        target_addr == combine_to_double_byte(c.registers.d, c.registers.e)
        bc          == combine_to_double_byte(c.registers.b, c.registers.c) - 1
        bs          == split_double_byte(bc % 65536)
    IN  IF ~InBounds(source_addr) \/ ~InBounds(target_addr)
        THEN [s EXCEPT !.c = Panic(c), !.done = TRUE]
        ELSE LET c1 == Store(c, target_addr, MemGet(c.mem, source_addr))
             IN  IF bc < 0 /\ overflow_checks
                 THEN [s EXCEPT !.c = Panic(c1), !.done = TRUE]
                 ELSE LET c2 == [c1 EXCEPT !.registers.b = bs[1], !.registers.c = bs[2]]
                      IN  IF bc % 65536 = 0
                          THEN [s EXCEPT !.c = c2, !.done = TRUE]
                          ELSE [s EXCEPT !.c = c2, !.repeats = s.repeats + 1]

\* `loop { ... }`: the body is iterated until it breaks.  LdirLoop(s, k) runs
\* at most 2^k passes (a u16 counter leaves after at most 2^16).
RECURSIVE LdirLoop(_, _)
LdirLoop(s, k) ==
    IF s.done THEN s
    ELSE IF k = 0 THEN LdirIteration(s)
    ELSE LdirLoop(LdirLoop(s, k - 1), k - 1)

\* LDIR: 16 + (repeats * 21) on u16
_0xEDB0(c, operands) ==
    LET r    == LdirLoop([c |-> c, repeats |-> 0, done |-> FALSE], 17)
        cost == 16 + ((r.repeats * 21) % 65536)
    IN  IF r.c.panicked THEN Done(r.c, 0)
        ELSE IF overflow_checks /\ (r.repeats * 21 > 65535 \/ cost > 65535)
             THEN Done(Panic(r.c), 0)
        ELSE Done(r.c, cost % 65536)

(***************************************************************************)
(* Index instructions (#DD xx)                                             *)
(***************************************************************************)
\* POP IX
_0xDDE1(c, operands) == Done(pop_register_pair(c, "i", "x"), 14)

\* PUSH IX
_0xDDE5(c, operands) == Done(push_register_pair(c, "i", "x"), 15)

(***************************************************************************)
(* Bit instructions (#CB xx)                                               *)
(***************************************************************************)
\* SRL B
_0xCB38(c, operands) == Done(srl(c, "b"), 8)

(***************************************************************************)
(* InstructionSet: the four dispatch tables of InstructionSet::default()   *)
(* (opcode byte -> instruction object), and the metadata of inst_metadata! *)
(***************************************************************************)
basic_instructions ==
    (0 :> "_0x00") @@ (1 :> "_0x01") @@ (195 :> "_0xC3") @@ (197 :> "_0xC5") @@
    (201 :> "_0xC9") @@ (76 :> "_0x4C") @@ (192 :> "_0xC0") @@ (243 :> "_0xF3") @@
    (6 :> "_0x06") @@ (120 :> "_0x78") @@ (245 :> "_0xF5") @@ (230 :> "_0xE6") @@
    (33 :> "_0x21") @@ (32 :> "_0x20") @@ (43 :> "_0x2B") @@ (126 :> "_0x7E") @@
    (4 :> "_0x04") @@ (5 :> "_0x05") @@ (13 :> "_0x0D") @@ (242 :> "_0xF2") @@
    (24 :> "_0x18") @@ (17 :> "_0x11") @@ (217 :> "_0xD9") @@ (54 :> "_0x36") @@
    (175 :> "_0xAF") @@ (8 :> "_0x08") @@ (49 :> "_0x31") @@ (229 :> "_0xE5") @@
    (213 :> "_0xD5") @@ (205 :> "_0xCD") @@ (45 :> "_0x2D") @@ (119 :> "_0x77") @@
    (62 :> "_0x3E") @@ (50 :> "_0x32") @@ (58 :> "_0x3A") @@ (35 :> "_0x23") @@
    (16 :> "_0x10") @@ (71 :> "_0x47") @@ (14 :> "_0x0E") @@ (169 :> "_0xA9") @@
    (113 :> "_0x71") @@ (26 :> "_0x1A") @@ (19 :> "_0x13") @@ (235 :> "_0xEB") @@
    (121 :> "_0x79") @@ (47 :> "_0x2F") @@ (7 :> "_0x07") @@ (182 :> "_0xB6") @@
    (34 :> "_0x22") @@ (103 :> "_0x67") @@ (111 :> "_0x6F") @@ (25 :> "_0x19") @@
    (125 :> "_0x7D") @@ (214 :> "_0xD6") @@ (124 :> "_0x7C") @@ (222 :> "_0xDE") @@
    (216 :> "_0xD8") @@ (12 :> "_0x0C") @@ (78 :> "_0x4E") @@ (94 :> "_0x5E") @@
    (86 :> "_0x56") @@ (187 :> "_0xBB") @@ (183 :> "_0xB7") @@ (200 :> "_0xC8") @@
    (48 :> "_0x30") @@ (251 :> "_0xFB") @@ (209 :> "_0xD1") @@ (193 :> "_0xC1") @@
    (112 :> "_0x70") @@ (115 :> "_0x73") @@ (114 :> "_0x72") @@ (9 :> "_0x09") @@
    (60 :> "_0x3C") @@ (41 :> "_0x29") @@ (254 :> "_0xFE") @@ (65 :> "_0x41") @@
    (248 :> "_0xF8")

extended_instructions ==
    (73 :> "_0xED49") @@ (120 :> "_0xED78") @@ (121 :> "_0xED79") @@ (86 :> "_0xED56") @@
    (70 :> "_0xED46") @@ (176 :> "_0xEDB0") @@ (91 :> "_0xED5B")

index_instructions ==
    (229 :> "_0xDDE5") @@ (225 :> "_0xDDE1")

bit_instructions ==
    (56 :> "_0xCB38")

\* every instruction object the catalog defines (mapped by a table or not)
Instructions ==
    {"_0x00", "_0x01", "_0x02", "_0x03", "_0x04", "_0x05",
     "_0x06", "_0x07", "_0x08", "_0x09", "_0x0B", "_0x0C",
     "_0x0D", "_0x0E", "_0x10", "_0x11", "_0x13", "_0x18",
     "_0x19", "_0x1A", "_0x20", "_0x21", "_0x22", "_0x23",
     "_0x29", "_0x2B", "_0x2D", "_0x2F", "_0x30", "_0x31",
     "_0x32", "_0x36", "_0x3A", "_0x3C", "_0x3E", "_0x41",
     "_0x47", "_0x4C", "_0x4E", "_0x56", "_0x5E", "_0x67",
     "_0x6F", "_0x70", "_0x71", "_0x72", "_0x73", "_0x77",
     "_0x78", "_0x79", "_0x7C", "_0x7D", "_0x7E", "_0xA9",
     "_0xAF", "_0xB6", "_0xB7", "_0xBB", "_0xC0", "_0xC1",
     "_0xC2", "_0xC3", "_0xC5", "_0xC8", "_0xC9", "_0xCD",
     "_0xD1", "_0xD5", "_0xD6", "_0xD8", "_0xD9", "_0xDE",
     "_0xE5", "_0xE6", "_0xEB", "_0xF0", "_0xF2", "_0xF3",
     "_0xF5", "_0xF8", "_0xFB", "_0xFE", "_0xCB38", "_0xDDE1",
     "_0xDDE5", "_0xED46", "_0xED49", "_0xED56", "_0xED5B", "_0xED78",
     "_0xED79", "_0xEDB0"}

\* operand_count(): the first argument of inst_metadata!
operand_count(inst) ==
    IF inst \in
     {"_0x06", "_0x0E", "_0x10", "_0x18", "_0x20", "_0x30",
     "_0x36", "_0x3E", "_0xD6", "_0xDE", "_0xE6", "_0xFE",
     "_0xCB38"}
    THEN 1
    ELSE IF inst \in
     {"_0x01", "_0x11", "_0x21", "_0x22", "_0x31", "_0x32",
     "_0x3A", "_0xC2", "_0xC3", "_0xCD", "_0xF2", "_0xED5B"}
    THEN 2
    ELSE 0

\* assembly(): the third argument of inst_metadata!
assembly(inst) ==
    CASE inst = "_0x00" -> "nop"
      [] inst = "_0x01" -> "LD BC,*2*1"
      [] inst = "_0x02" -> "LD (BC),A"
      [] inst = "_0x03" -> "INC BC"
      [] inst = "_0x04" -> "INC B"
      [] inst = "_0x05" -> "DEC B"
      [] inst = "_0x06" -> "LD B,*1"
      [] inst = "_0x07" -> "RCLA"
      [] inst = "_0x08" -> "EX AF,AF'"
      [] inst = "_0x09" -> "ADD HL,BC"
      [] inst = "_0x0B" -> "DEC BC"
      [] inst = "_0x0C" -> "INC C"
      [] inst = "_0x0D" -> "DEC C"
      [] inst = "_0x0E" -> "LD C,*1"
      [] inst = "_0x10" -> "DJNZ *1"
      [] inst = "_0x11" -> "LD DE,*2*1"
      [] inst = "_0x13" -> "INC DE"
      [] inst = "_0x18" -> "JR *1"
      [] inst = "_0x19" -> "ADD HL,DE"
      [] inst = "_0x1A" -> "LD A,(DE)"
      [] inst = "_0x20" -> "JR NZ,*1"
      [] inst = "_0x21" -> "LD HL,*2*1"
      [] inst = "_0x22" -> "LD (*2*1),HL"
      [] inst = "_0x23" -> "INC HL"
      [] inst = "_0x29" -> "ADD HL,HL"
      [] inst = "_0x2B" -> "DEC HL"
      [] inst = "_0x2D" -> "DEC L"
      [] inst = "_0x2F" -> "CPL"
      [] inst = "_0x30" -> "JR NC,*1"
      [] inst = "_0x31" -> "LD SP,*2*1"
      [] inst = "_0x32" -> "LD (*2*1),A"
      [] inst = "_0x36" -> "LD (HL),*1"
      [] inst = "_0x3A" -> "LD A,(*2*1)"
      [] inst = "_0x3C" -> "INC A"
      [] inst = "_0x3E" -> "LD A,*1"
      [] inst = "_0x41" -> "LD B,C"
      [] inst = "_0x47" -> "LD B,A"
      [] inst = "_0x4C" -> "LD C,H"
      [] inst = "_0x4E" -> "LD C,(HL)"
      [] inst = "_0x56" -> "LD D,(HL)"
      [] inst = "_0x5E" -> "LD E,(HL)"
      [] inst = "_0x67" -> "LD H,A"
      [] inst = "_0x6F" -> "LD L,A"
      [] inst = "_0x70" -> "LD (HL),B"
      [] inst = "_0x71" -> "LD (HL),C"
      [] inst = "_0x72" -> "LD (HL),D"
      [] inst = "_0x73" -> "LD (HL),E"
      [] inst = "_0x77" -> "LD (HL),A"
      [] inst = "_0x78" -> "LD A,B"
      [] inst = "_0x79" -> "LD A,C"
      [] inst = "_0x7C" -> "LD A,H"
      [] inst = "_0x7D" -> "LD A,L"
      [] inst = "_0x7E" -> "LD A,(HL)"
      [] inst = "_0xA9" -> "XOR C"
      [] inst = "_0xAF" -> "XOR A"
      [] inst = "_0xB6" -> "OR (HL)"
      [] inst = "_0xB7" -> "OR A"
      [] inst = "_0xBB" -> "CP E"
      [] inst = "_0xC0" -> "RET NZ"
      [] inst = "_0xC1" -> "POP BC"
      [] inst = "_0xC2" -> "JP NZ,*2*1"
      [] inst = "_0xC3" -> "JP *2*1"
      [] inst = "_0xC5" -> "PUSH BC"
      [] inst = "_0xC8" -> "RET Z"
      [] inst = "_0xC9" -> "RET"
      [] inst = "_0xCD" -> "CALL *2*1"
      [] inst = "_0xD1" -> "POP DE"
      [] inst = "_0xD5" -> "PUSH DE"
      [] inst = "_0xD6" -> "SUB *1"
      [] inst = "_0xD8" -> "RET C"
      [] inst = "_0xD9" -> "EXX"
      [] inst = "_0xDE" -> "SBC A,*1"
      [] inst = "_0xE5" -> "PUSH HL"
      [] inst = "_0xE6" -> "AND *1"
      [] inst = "_0xEB" -> "EX DE,HL"
      [] inst = "_0xF0" -> "RET P"
      [] inst = "_0xF2" -> "JP P,*2*1"
      [] inst = "_0xF3" -> "DI"
      [] inst = "_0xF5" -> "PUSH AF"
      [] inst = "_0xF8" -> "RET M"
      [] inst = "_0xFB" -> "EI"
      [] inst = "_0xFE" -> "CP *1"
      [] inst = "_0xCB38" -> "SRL B"
      [] inst = "_0xDDE1" -> "POP IX"
      [] inst = "_0xDDE5" -> "PUSH IX"
      [] inst = "_0xED46" -> "IM 0"
      [] inst = "_0xED49" -> "OUT (C),C"
      [] inst = "_0xED56" -> "IM 1"
      [] inst = "_0xED5B" -> "LD DE,(*2*1)"
      [] inst = "_0xED78" -> "IN A,(C)"
      [] inst = "_0xED79" -> "OUT (C),A"
      [] inst = "_0xEDB0" -> "LDIR"

\* instruction.execute(components, operands)
execute(inst, c, operands) ==
    CASE inst = "_0x00" -> _0x00(c, operands)
      [] inst = "_0x01" -> _0x01(c, operands)
      [] inst = "_0x02" -> _0x02(c, operands)
      [] inst = "_0x03" -> _0x03(c, operands)
      [] inst = "_0x04" -> _0x04(c, operands)
      [] inst = "_0x05" -> _0x05(c, operands)
      [] inst = "_0x06" -> _0x06(c, operands)
      [] inst = "_0x07" -> _0x07(c, operands)
      [] inst = "_0x08" -> _0x08(c, operands)
      [] inst = "_0x09" -> _0x09(c, operands)
      [] inst = "_0x0B" -> _0x0B(c, operands)
      [] inst = "_0x0C" -> _0x0C(c, operands)
      [] inst = "_0x0D" -> _0x0D(c, operands)
      [] inst = "_0x0E" -> _0x0E(c, operands)
      [] inst = "_0x10" -> _0x10(c, operands)
      [] inst = "_0x11" -> _0x11(c, operands)
      [] inst = "_0x13" -> _0x13(c, operands)
      [] inst = "_0x18" -> _0x18(c, operands)
      [] inst = "_0x19" -> _0x19(c, operands)
      [] inst = "_0x1A" -> _0x1A(c, operands)
      [] inst = "_0x20" -> _0x20(c, operands)
      [] inst = "_0x21" -> _0x21(c, operands)
      [] inst = "_0x22" -> _0x22(c, operands)
      [] inst = "_0x23" -> _0x23(c, operands)
      [] inst = "_0x29" -> _0x29(c, operands)
      [] inst = "_0x2B" -> _0x2B(c, operands)
      [] inst = "_0x2D" -> _0x2D(c, operands)
      [] inst = "_0x2F" -> _0x2F(c, operands)
      [] inst = "_0x30" -> _0x30(c, operands)
      [] inst = "_0x31" -> _0x31(c, operands)
      [] inst = "_0x32" -> _0x32(c, operands)
      [] inst = "_0x36" -> _0x36(c, operands)
      [] inst = "_0x3A" -> _0x3A(c, operands)
      [] inst = "_0x3C" -> _0x3C(c, operands)
      [] inst = "_0x3E" -> _0x3E(c, operands)
      [] inst = "_0x41" -> _0x41(c, operands)
      [] inst = "_0x47" -> _0x47(c, operands)
      [] inst = "_0x4C" -> _0x4C(c, operands)
      [] inst = "_0x4E" -> _0x4E(c, operands)
      [] inst = "_0x56" -> _0x56(c, operands)
      [] inst = "_0x5E" -> _0x5E(c, operands)
      [] inst = "_0x67" -> _0x67(c, operands)
      [] inst = "_0x6F" -> _0x6F(c, operands)
      [] inst = "_0x70" -> _0x70(c, operands)
      [] inst = "_0x71" -> _0x71(c, operands)
      [] inst = "_0x72" -> _0x72(c, operands)
      [] inst = "_0x73" -> _0x73(c, operands)
      [] inst = "_0x77" -> _0x77(c, operands)
      [] inst = "_0x78" -> _0x78(c, operands)
      [] inst = "_0x79" -> _0x79(c, operands)
      [] inst = "_0x7C" -> _0x7C(c, operands)
      [] inst = "_0x7D" -> _0x7D(c, operands)
      [] inst = "_0x7E" -> _0x7E(c, operands)
      [] inst = "_0xA9" -> _0xA9(c, operands)
      [] inst = "_0xAF" -> _0xAF(c, operands)
      [] inst = "_0xB6" -> _0xB6(c, operands)
      [] inst = "_0xB7" -> _0xB7(c, operands)
      [] inst = "_0xBB" -> _0xBB(c, operands)
      [] inst = "_0xC0" -> _0xC0(c, operands)
      [] inst = "_0xC1" -> _0xC1(c, operands)
      [] inst = "_0xC2" -> _0xC2(c, operands)
      [] inst = "_0xC3" -> _0xC3(c, operands)
      [] inst = "_0xC5" -> _0xC5(c, operands)
      [] inst = "_0xC8" -> _0xC8(c, operands)
      [] inst = "_0xC9" -> _0xC9(c, operands)
      [] inst = "_0xCD" -> _0xCD(c, operands)
      [] inst = "_0xD1" -> _0xD1(c, operands)
      [] inst = "_0xD5" -> _0xD5(c, operands)
      [] inst = "_0xD6" -> _0xD6(c, operands)
      [] inst = "_0xD8" -> _0xD8(c, operands)
      [] inst = "_0xD9" -> _0xD9(c, operands)
      [] inst = "_0xDE" -> _0xDE(c, operands)
      [] inst = "_0xE5" -> _0xE5(c, operands)
      [] inst = "_0xE6" -> _0xE6(c, operands)
      [] inst = "_0xEB" -> _0xEB(c, operands)
      [] inst = "_0xF0" -> _0xF0(c, operands)
      [] inst = "_0xF2" -> _0xF2(c, operands)
      [] inst = "_0xF3" -> _0xF3(c, operands)
      [] inst = "_0xF5" -> _0xF5(c, operands)
      [] inst = "_0xF8" -> _0xF8(c, operands)
      [] inst = "_0xFB" -> _0xFB(c, operands)
      [] inst = "_0xFE" -> _0xFE(c, operands)
      [] inst = "_0xCB38" -> _0xCB38(c, operands)
      [] inst = "_0xDDE1" -> _0xDDE1(c, operands)
      [] inst = "_0xDDE5" -> _0xDDE5(c, operands)
      [] inst = "_0xED46" -> _0xED46(c, operands)
      [] inst = "_0xED49" -> _0xED49(c, operands)
      [] inst = "_0xED56" -> _0xED56(c, operands)
      [] inst = "_0xED5B" -> _0xED5B(c, operands)
      [] inst = "_0xED78" -> _0xED78(c, operands)
      [] inst = "_0xED79" -> _0xED79(c, operands)
      [] inst = "_0xEDB0" -> _0xEDB0(c, operands)

(***************************************************************************)
(* Registers::default(), RuntimeComponents::default()                      *)
(***************************************************************************)
RegistersDefault ==
    [a |-> 0, f |-> 0, b |-> 0, c |-> 0, d |-> 0, e |-> 0, h |-> 0, l |-> 0,
     a_ |-> 0, f_ |-> 0, b_ |-> 0, c_ |-> 0, d_ |-> 0, e_ |-> 0, h_ |-> 0, l_ |-> 0,
     i |-> 0, x |-> 0,
     pc |-> 0, sp |-> 65535,
     iff1 |-> FALSE, iff2 |-> FALSE, interrupt_mode |-> 0]

RuntimeComponentsDefault ==
    [mem |-> MemoryDefault, registers |-> RegistersDefault, panicked |-> FALSE]

(***************************************************************************)
(* Runtime::run: one iteration of the fetch-decode-execute loop            *)
(***************************************************************************)
\* the lead-in bytes the loop matches on, and the table each selects
Namespace(instruction_byte) ==
    CASE instruction_byte = 203 -> "bit"
      [] instruction_byte = 221 -> "index"
      [] instruction_byte = 237 -> "extended"
      [] OTHER -> "basic"

\* Variant of TableOf in which every lookup goes to the basic table; the
\* unmapped-opcode property C2 must reject it.
TableOf_basic_only(ns) == basic_instructions

\* bit_instruction_for / index_instruction_for / extended_instruction_for /
\* instruction_for: the table the lookup goes to
TableOf(ns) ==
    CASE ns = "bit" -> bit_instructions
      [] ns = "index" -> index_instructions
      [] ns = "extended" -> extended_instructions
      [] OTHER -> basic_instructions

\* pc.inc(); then the byte at the new pc.  [c, byte]; c.panicked when the
\* increment overflows under overflow checks or the index is out of bounds
NextByte(c) ==
    LET c1 == pc_inc(c)
    IN  IF c1.panicked THEN [c |-> c1, byte |-> 0]
        ELSE IF ~InBounds(c1.registers.pc) THEN [c |-> Panic(c1), byte |-> 0]
        ELSE [c |-> c1, byte |-> MemGet(c1.mem, c1.registers.pc)]

\* Variant of FetchOperands that hands the two operand bytes over in
\* descending address order; the decode property C1 must reject it.
FetchOperands_descending(c, op_count) ==
    IF op_count = 0 THEN [c |-> c, operands |-> <<>>]
    ELSE LET n1 == NextByte(c)
         IN  IF op_count = 1 \/ n1.c.panicked
             THEN [c |-> n1.c, operands |-> <<n1.byte>>]
             ELSE LET n2 == NextByte(n1.c)
                  IN  [c |-> n2.c, operands |-> <<n2.byte, n1.byte>>]

\* the operand fetch: `match op_count { 0 => .., 1 => .., 2 => .. }`
\* [c, operands]
FetchOperands(c, op_count) ==
    IF op_count = 0 THEN [c |-> c, operands |-> <<>>]
    ELSE LET n1 == NextByte(c)
         IN  IF op_count = 1 \/ n1.c.panicked
             THEN [c |-> n1.c, operands |-> <<n1.byte>>]
             ELSE LET n2 == NextByte(n1.c)
                  IN  [c |-> n2.c, operands |-> <<n1.byte, n2.byte>>]

\* One iteration of the loop of Runtime::run on components c.
\* outcome: "retired" (execute returned), "exited" (std::process::exit(1) in
\* the lookup), "panicked".  entry: what the iteration decoded and did.
LoopIteration(c) ==
    LET pc0 == c.registers.pc
        nothing == [op |-> "step", pc |-> pc0, sp |-> c.registers.sp,
                    ns |-> "none", byte |-> 0,
                    instruction |-> "none", operands |-> <<>>, cycles |-> 0,
                    wrong_operands |-> FALSE]
    IN  IF ~InBounds(pc0)
        THEN [components |-> Panic(c), outcome |-> "panicked", entry |-> nothing]
        ELSE
        LET instruction_byte == MemGet(c.mem, pc0)
            ns      == Namespace(instruction_byte)
            second  == IF ns = "basic" THEN [c |-> c, byte |-> instruction_byte]
                       ELSE NextByte(c)
            table   == TableOf(ns)
            decoded == [nothing EXCEPT !.ns = ns, !.byte = second.byte]
        IN  IF second.c.panicked
            THEN [components |-> second.c, outcome |-> "panicked", entry |-> nothing]
            ELSE IF second.byte \notin DOMAIN table
            THEN [components |-> second.c, outcome |-> "exited",
                  entry |-> [decoded EXCEPT !.instruction = "unimplemented"]]
            ELSE
            LET instruction == table[second.byte]
                fetched == FetchOperands(second.c, operand_count(instruction))
                c3      == pc_inc(fetched.c)
                named   == [decoded EXCEPT !.instruction = instruction,
                                           !.operands = fetched.operands]
            IN  IF c3.panicked
                THEN [components |-> c3, outcome |-> "panicked", entry |-> named]
                ELSE
                LET r == execute(instruction, c3, fetched.operands)
                IN  [components |-> r.components,
                     outcome |-> IF r.components.panicked THEN "panicked" ELSE "retired",
                     entry |-> [named EXCEPT !.cycles = r.cycles,
                                             !.wrong_operands = r.wrong_operands]]

(***************************************************************************)
(* Bounds of the model                                                     *)
(***************************************************************************)
\* the number of loop iterations, or of stack calls, a behaviour makes
MaxSteps == 4

\* the number of instructions a behaviour executes directly
MaxCalls == 1

\* the number of instructions a behaviour executes directly when it is about
\* one instruction following another
MaxPairCalls == 2

(***************************************************************************)
(* Actions: the engine                                                     *)
(***************************************************************************)
\* the addresses run() is started at
StartAddresses == {0, 65531}

\* Runtime::run(start_address), up to the loop
Run ==
    /\ status = "init"
    /\ \E start_address \in StartAddresses :
          components' = pc_set(components, start_address)
    /\ status' = "running"
    /\ UNCHANGED <<log, overflow_checks>>

\* one iteration of the loop of Runtime::run
Step ==
    /\ status = "running"
    /\ Len(log) < MaxSteps
    /\ \E it \in {LoopIteration(components)} :
           /\ components' = it.components
           /\ status' = IF it.outcome = "retired" THEN "running" ELSE it.outcome
           /\ log' = Append(log, [it.entry EXCEPT !.op = it.outcome])
    /\ UNCHANGED overflow_checks

(***************************************************************************)
(* The engine started on a ROM image: Spec                                 *)
(***************************************************************************)
Prefixes == {203, 221, 237}

\* operand bytes of the programs: a forward displacement, a backward one
OperandBytes == {2, 254}

\* mem with bytes laid out from address base
Load(mem, base, bytes) ==
    [j \in (DOMAIN mem \cup {base + k - 1 : k \in 1..Len(bytes)}) \
           {base + k - 1 : k \in {n \in 1..Len(bytes) : bytes[n] = FillByte}} |->
        IF j - base + 1 \in 1..Len(bytes) THEN bytes[j - base + 1] ELSE mem[j]]

\* every first byte, every second byte after a prefix, and operand bytes
DecodePrograms ==
    {<<b0, b1, b2, b3>> : b0 \in Prefixes, b1 \in Byte, b2 \in OperandBytes, b3 \in {2}}
    \cup
    {<<b0, b1, b2, b3>> : b0 \in Byte \ Prefixes, b1 \in OperandBytes,
                          b2 \in OperandBytes, b3 \in {2}}

Init ==
    /\ overflow_checks \in BOOLEAN
    /\ status = "init"
    /\ log = <<>>
    /\ \E program \in DecodePrograms : \E base \in StartAddresses :
          components = [RuntimeComponentsDefault EXCEPT
                           !.mem = Load(MemoryDefault, base, program)]

Next == Run \/ Step

Spec == Init /\ [][Next]_vars

\* The last call or iteration recorded
Last(entries) == entries[Len(entries)]

\* The instructions whose execute assigns the program counter
PcWriters ==
    {"_0x10", "_0x18", "_0x20", "_0x30", "_0xC0", "_0xC2", "_0xC3", "_0xC8",
     "_0xC9", "_0xCD", "_0xD8", "_0xF0", "_0xF2", "_0xF8"}

\* The table a first byte selects, written out from the prefix values
SelectedTable(first) ==
    CASE first = 203 -> [ns |-> "bit", table |-> bit_instructions]
      [] first = 221 -> [ns |-> "index", table |-> index_instructions]
      [] first = 237 -> [ns |-> "extended", table |-> extended_instructions]
      [] OTHER -> [ns |-> "basic", table |-> basic_instructions]

\* C1 (decode step): an iteration at PC = p that does not fault looks up
\* mem[p+1] in the bit / index / extended table when mem[p] is 0xCB / 0xDD /
\* 0xED and mem[p] in the basic table otherwise; when the instruction
\* retires, its operands are the operand_count bytes that follow the
\* looked-up byte, in ascending address order, and an instruction that does
\* not write PC leaves PC = p + (1 if prefixed) + 1 + operand_count.
C1_DecodeStep ==
    [][(status = "running" /\ status' \in {"running", "exited"}
                           /\ Len(log') = Len(log) + 1) =>
        LET p        == components.registers.pc
            first    == MemGet(components.mem, p)
            prefixed == first \in {203, 221, 237}
            at       == IF prefixed THEN p + 1 ELSE p
            sel      == SelectedTable(first)
            e        == Last(log')
        IN  /\ e.pc = p
            /\ e.ns = sel.ns
            /\ e.byte = MemGet(components.mem, at)
            /\ (status' = "running") =>
                  /\ e.byte \in DOMAIN sel.table
                  /\ e.instruction = sel.table[e.byte]
                  /\ LET n == operand_count(e.instruction)
                     IN  /\ e.operands = [k \in 1..n |-> MemGet(components.mem, at + k)]
                         /\ (e.instruction \notin PcWriters) =>
                               components'.registers.pc
                                  = p + (IF prefixed THEN 1 ELSE 0) + 1 + n
    ]_vars

\* C1 happens: ED 5B FE 02 at 0 was decoded in the extended table with
\* operands (0xFE, 0x02) and retired at PC = 4; 0x5B is not a basic opcode
C1_Witness ==
    /\ status = "running"
    /\ Len(log) = 1
    /\ log[1].pc = 0 /\ log[1].ns = "extended" /\ log[1].byte = 91
    /\ log[1].instruction = "_0xED5B"
    /\ log[1].operands = <<254, 2>>
    /\ components.registers.pc = 4
    /\ 91 \notin DOMAIN basic_instructions

\* C2 (unmapped opcode is fatal): when the byte looked up has no entry in
\* the selected table, the iteration ends the engine for good, executes no
\* instruction, and modifies no memory byte and no register (flags
\* included) other than PC, which stands on the byte looked up.
C2_UnmappedOpcodeFatal ==
    [][/\ status # "exited"
       /\ (status = "running" /\ Len(log') = Len(log) + 1) =>
            LET p        == components.registers.pc
                first    == MemGet(components.mem, p)
                prefixed == first \in {203, 221, 237}
                at       == IF prefixed THEN p + 1 ELSE p
                sel      == SelectedTable(first)
            IN  (/\ InBounds(p) /\ InBounds(at)
                 /\ MemGet(components.mem, at) \notin DOMAIN sel.table) =>
                    /\ status' = "exited"
                    /\ Last(log').instruction = "unimplemented"
                    /\ Last(log').cycles = 0
                    /\ components'.mem = components.mem
                    /\ components'.panicked = components.panicked
                    /\ \A r \in DOMAIN components.registers \ {"pc"} :
                          components'.registers[r] = components.registers[r]
                    /\ components'.registers.pc = at
    ]_vars

\* C2 happens: ED 00 ended the engine, although 0x00 is a basic opcode
C2_Witness ==
    /\ status = "exited"
    /\ Last(log).op = "exited"
    /\ Last(log).ns = "extended" /\ Last(log).byte = 0
    /\ 0 \in DOMAIN basic_instructions
    /\ components.registers.pc \in {1, 65532}

(***************************************************************************)
(* Actions: the objects called directly, as the unit tests of memory.rs    *)
(* and basic.rs call them on a RuntimeComponents that was never run        *)
(***************************************************************************)
StatusAfter(c) == IF c.panicked THEN "panicked" ELSE "init"

\* sp.push(&mut mem, value)
PushCall(value) ==
    /\ status = "init"
    /\ Len(log) < MaxSteps
    /\ components' = push(components, value)
    /\ status' = StatusAfter(components')
    /\ log' = Append(log, [op |-> "push", value |-> value,
                           from |-> components.registers.sp,
                           sp |-> components'.registers.sp,
                           ok |-> ~components'.panicked])
    /\ UNCHANGED overflow_checks

\* let val = sp.pop(&mem)
PopCall ==
    /\ status = "init"
    /\ Len(log) < MaxSteps
    /\ LET p == pop(components)
       IN  /\ components' = p.c
           /\ status' = StatusAfter(p.c)
           /\ log' = Append(log, [op |-> "pop", value |-> p.value,
                                  from |-> components.registers.sp,
                                  sp |-> p.c.registers.sp,
                                  ok |-> ~p.c.panicked])
    /\ UNCHANGED overflow_checks

\* let cycles = instruction.execute(&mut components, operands)
Call(inst, operands) ==
    /\ status = "init"
    /\ Len(log) < MaxCalls
    /\ LET r == execute(inst, components, operands)
       IN  /\ components' = r.components
           /\ status' = StatusAfter(r.components)
           /\ log' = Append(log, [op |-> "execute", pc |-> components.registers.pc,
                                  ns |-> "none", byte |-> 0, instruction |-> inst,
                                  operands |-> operands, cycles |-> r.cycles,
                                  wrong_operands |-> r.wrong_operands])
    /\ UNCHANGED overflow_checks

(***************************************************************************)
(* The stack pointer alone, as tests::test_stack_pointer drives it:        *)
(* SpecStack                                                               *)
(***************************************************************************)
\* StackPointer { location: .. }: 0x100 as in the test, the reset value, the
\* lowest location with room for two pushes, and locations without room
StackStarts == {256, 65535, 4, 3, 1, 0}

StackValues == {44015, 52617, 255, 65280}

InitStack ==
    /\ overflow_checks \in BOOLEAN
    /\ status = "init"
    /\ log = <<>>
    /\ \E s \in StackStarts :
          components = sp_set(RuntimeComponentsDefault, s)

NextStack == (\E value \in StackValues : PushCall(value)) \/ PopCall

SpecStack == InitStack /\ [][NextStack]_vars

\* The addresses at which two memories hold different bytes
Differing(mem1, mem2) ==
    {index \in DOMAIN mem1 \cup DOMAIN mem2 : MemGet(mem1, index) # MemGet(mem2, index)}

\* C3 (stack LIFO round trip): from any location s with room (4 <= s <=
\* 0xFFFF), push v1, push v2, pop, pop returns v2 then v1, and the stack
\* pointer reads s-2, s-4, s-2, s after the four calls; from s >= 2 a single
\* push of v followed by a pop returns v and restores s.  None of the calls
\* faults.
C3_StackRoundTrip ==
    /\ \A i \in 1..(Len(log) - 3) :
          (/\ log[i].op = "push" /\ log[i + 1].op = "push"
           /\ log[i + 2].op = "pop" /\ log[i + 3].op = "pop"
           /\ log[i].from >= 4 /\ log[i].from <= 65535)
          => LET s == log[i].from
             IN  /\ \A j \in i..(i + 3) : log[j].ok
                 /\ log[i].sp = s - 2
                 /\ log[i + 1].sp = s - 4
                 /\ log[i + 2].sp = s - 2 /\ log[i + 2].value = log[i + 1].value
                 /\ log[i + 3].sp = s /\ log[i + 3].value = log[i].value
    /\ \A i \in 1..(Len(log) - 1) :
          (/\ log[i].op = "push" /\ log[i + 1].op = "pop"
           /\ log[i].from >= 2 /\ log[i].from <= 65535)
          => /\ log[i].ok /\ log[i + 1].ok
             /\ log[i + 1].value = log[i].value
             /\ log[i + 1].sp = log[i].from

\* C3 happens: 0xABEF then 0xCD89 pushed at 0x100 and popped back in reverse
C3_Witness ==
    /\ Len(log) = 4
    /\ log[1].op = "push" /\ log[1].from = 256 /\ log[1].value = 44015
    /\ log[2].op = "push" /\ log[2].value = 52617
    /\ log[3].op = "pop" /\ log[3].value = 52617
    /\ log[4].op = "pop" /\ log[4].value = 44015 /\ log[4].sp = 256
    /\ status = "init"

\* C4 (stack byte layout): a push of v at location s (2 <= s <= 0xFFFF)
\* leaves the high byte of v at s-1 and the low byte at s-2, the stack pointer
\* at s-2, and every other memory byte as it was; a pop at s (s <= 0xFFFD)
\* returns mem[s+1]*256 + mem[s], leaves the stack pointer at s+2 and memory
\* unchanged.
C4_StackByteLayout ==
    [][(Len(log') = Len(log) + 1) =>
        LET s == components.registers.sp
            e == Last(log')
        IN  /\ (e.op = "push" /\ s >= 2 /\ s <= 65535) =>
                  /\ ~components'.panicked
                  /\ MemGet(components'.mem, s - 1) = e.value \div 256
                  /\ MemGet(components'.mem, s - 2) = e.value % 256
                  /\ components'.registers.sp = s - 2
                  /\ Differing(components.mem, components'.mem) \subseteq {s - 1, s - 2}
            /\ (e.op = "pop" /\ s <= 65533) =>
                  /\ ~components'.panicked
                  /\ e.value = MemGet(components.mem, s + 1) * 256
                                  + MemGet(components.mem, s)
                  /\ components'.registers.sp = s + 2
                  /\ components'.mem = components.mem
    ]_vars

\* C4 happens: 0xABEF pushed at 0x100 lies as AB at 0xFF and EF at 0xFE, and
\* has been popped back from there
C4_Witness ==
    /\ Len(log) = 2
    /\ log[1].op = "push" /\ log[1].from = 256 /\ log[1].value = 44015
    /\ log[2].op = "pop" /\ log[2].from = 254 /\ log[2].value = 44015
    /\ MemGet(components.mem, 255) = 171
    /\ MemGet(components.mem, 254) = 239

(***************************************************************************)
(* Register states for the instructions called directly                    *)
(***************************************************************************)
\* the byte registers an instruction can name, in the order of Registers
ByteRegisters == <<"a", "f", "b", "c", "d", "e", "h", "l", "i", "x">>

\* values as the tests set them (0xEF, 0x8C, 0x0A, 0x0B) and edge values
RegisterValues == <<239, 140, 10, 11, 0, 255, 18, 52, 128, 127>>

\* Registers in which every byte register holds a different value
RegisterFile(k) ==
    [r \in DOMAIN RegistersDefault |->
        IF \E j \in 1..Len(ByteRegisters) : ByteRegisters[j] = r
        THEN LET j == CHOOSE j \in 1..Len(ByteRegisters) : ByteRegisters[j] = r
             IN  RegisterValues[((j + k) % Len(RegisterValues)) + 1]
        ELSE RegistersDefault[r]]

RegisterFiles == {RegisterFile(k) : k \in 0..2}

(***************************************************************************)
(* PUSH qq called directly and popped back, as tests::push_bc and          *)
(* tests::push_af do: SpecPush                                             *)
(***************************************************************************)
\* the register pair each PUSH is named after
PushedPair ==
    [_0xC5 |-> <<"b", "c">>, _0xD5 |-> <<"d", "e">>, _0xE5 |-> <<"h", "l">>,
     _0xF5 |-> <<"a", "f">>, _0xDDE5 |-> <<"i", "x">>]

InitPush ==
    /\ overflow_checks \in BOOLEAN
    /\ status = "init"
    /\ log = <<>>
    /\ \E registers \in RegisterFiles : \E s \in {65535, 256, 1} :
          components = sp_set([RuntimeComponentsDefault EXCEPT !.registers = registers], s)

NextPush == (\E inst \in DOMAIN PushedPair : Call(inst, <<>>)) \/ PopCall

SpecPush == InitPush /\ [][NextPush]_vars

\* C5 (PUSH qq then pop), as the specification states it: for each of PUSH
\* BC, PUSH DE, PUSH HL, PUSH AF and PUSH IX, executing the instruction and
\* then popping returns the first named register as high byte and the second
\* as low byte.
C5_PushThenPop ==
    \A n \in 1..(Len(log) - 1) :
        (/\ log[n].op = "execute" /\ log[n].instruction \in DOMAIN PushedPair
         /\ log[n + 1].op = "pop" /\ log[n + 1].ok)
        => LET pair == PushedPair[log[n].instruction]
           IN  log[n + 1].value = components.registers[pair[1]] * 256
                                     + components.registers[pair[2]]

(***************************************************************************)
(* The engine on programs that call and return: SpecCall                   *)
(***************************************************************************)
\* the engine before run(), with one of the given memories loaded
InitEngine(memories) ==
    /\ overflow_checks \in BOOLEAN
    /\ status = "init"
    /\ log = <<>>
    /\ \E mem \in memories :
          components = [RuntimeComponentsDefault EXCEPT !.mem = mem]

\* the low and high byte of an address, as a program's operand bytes
AddressBytes(addr) == <<addr % 256, addr \div 256>>

\* subroutines: RET; NOP, RET; PUSH BC, POP BC, RET; PUSH BC, RET
CallBodies == {<<201>>, <<0, 201>>, <<197, 193, 201>>, <<197, 201>>}

\* where the subroutines lie
CallTargets == {16, 65026}

\* before the CALL: nothing (the stack at its reset location), or LD SP,0x0100
CallPrologues == {<<>>, <<49, 0, 1>>}

\* prologue, CALL target at a start address; the subroutine at target
CallMemories ==
    {Load(Load(MemoryDefault, base, prologue \o <<205>> \o AddressBytes(target)),
          target, body) :
        base \in StartAddresses, prologue \in CallPrologues,
        target \in CallTargets, body \in CallBodies}

InitCall == InitEngine(CallMemories)

SpecCall == InitCall /\ [][Next]_vars

JumpInstructions == {"_0x10", "_0x18", "_0x20", "_0x30", "_0xC2", "_0xC3", "_0xF2"}

\* operands of the shape the instruction's operand_count announces
OperandsFor(inst) ==
    CASE operand_count(inst) = 0 -> {<<>>}
      [] operand_count(inst) = 1 -> {<<d>> : d \in {2, 254, 0, 127, 128}}
      [] OTHER -> {<<170, 255>>, <<2, 254>>, <<0, 0>>}

\* F: no flag, Z, C, Z and C, S, every flag
JumpFlags == {0, 64, 1, 65, 128, 255}

InitJump ==
    /\ overflow_checks \in BOOLEAN
    /\ status = "init"
    /\ log = <<>>
    /\ \E f \in JumpFlags : \E b \in {0, 1, 2, 255} : \E pc \in {3, 0, 32768, 65535} :
          components = [RuntimeComponentsDefault EXCEPT
                           !.registers.f = f, !.registers.b = b, !.registers.pc = pc]

NextJump == \E inst \in JumpInstructions : \E operands \in OperandsFor(inst) :
                Call(inst, operands)

SpecJump == InitJump /\ [][NextJump]_vars

C8_RelativeJumpsSigned ==
    [][(Len(log') = Len(log) + 1 /\ Last(log').op = "execute") =>
        LET e == Last(log')
            d == e.operands[1]
            displacement == IF d >= 128 THEN d - 256 ELSE d
            f == components.registers.f
            taken == \/ e.instruction = "_0x18"
                     \/ e.instruction = "_0x20" /\ (f \div 64) % 2 = 0
                     \/ e.instruction = "_0x30" /\ f % 2 = 0
                     \/ e.instruction = "_0x10" /\ components.registers.b # 1
        IN  (e.instruction \in {"_0x18", "_0x20", "_0x30", "_0x10"} /\ taken
                /\ ~components'.panicked)
            => components'.registers.pc = (e.pc + displacement + 65536) % 65536
    ]_vars

(***************************************************************************)
(* The engine on programs that loop on DJNZ: SpecDjnz                      *)
(***************************************************************************)
\* before the DJNZ: nothing (B = 0 from reset), or LD B,n
DjnzPrologues == {<<>>} \cup {<<6, n>> : n \in {1, 2, 3, 255, 0}}

\* the displacement: to the DJNZ itself, or forward
DjnzDisplacements == {254, 2}

DjnzMemories ==
    {Load(MemoryDefault, base, prologue \o <<16, d>>) :
        base \in StartAddresses, prologue \in DjnzPrologues, d \in DjnzDisplacements}

InitDjnz == InitEngine(DjnzMemories)

\* run() is a `loop` without an exit: an iteration that can be made is made
SpecDjnz == InitDjnz /\ [][Next]_vars /\ WF_vars(Next)

\* C9, first sentence: a DJNZ decrements B modulo 256 before it tests it,
\* branches to the address after the instruction plus the signed
\* displacement iff the result is nonzero, and costs 13 cycles when it
\* branches and 8 when it does not.
C9_DjnzStep ==
    [][(status = "running" /\ Len(log') = Len(log) + 1
                           /\ Last(log').instruction = "_0x10") =>
        LET e      == Last(log')
            d      == e.operands[1]
            result == (components.registers.b + 255) % 256
        IN  /\ e.op = "retired"
            /\ components'.registers.b = result
            /\ IF result # 0
               THEN /\ components'.registers.pc
                          = (e.pc + 2 + (IF d >= 128 THEN d - 256 ELSE d) + 65536) % 65536
                    /\ e.cycles = 13
               ELSE /\ components'.registers.pc = e.pc + 2
                    /\ e.cycles = 8
    ]_vars

\* C9, second sentence (count): after LD B,n (1 <= n) in front of a DJNZ that
\* targets itself, the next n iterations are that DJNZ, the first n - 1
\* branching (13 cycles) and the n-th not (8 cycles), after which PC is past
\* the DJNZ with B = 0.
C9_LoopCount ==
    \A i \in 1..Len(log) : \A n \in 1..MaxSteps :
        (/\ log[i].op = "retired" /\ log[i].instruction = "_0x06"
         /\ log[i].operands = <<n>>
         /\ MemGet(components.mem, log[i].pc + 2) = 16
         /\ MemGet(components.mem, log[i].pc + 3) = 254)
        => /\ \A k \in 1..n : (i + k <= Len(log)) =>
                 /\ log[i + k].op = "retired"
                 /\ log[i + k].instruction = "_0x10"
                 /\ log[i + k].pc = log[i].pc + 2
                 /\ log[i + k].cycles = IF k < n THEN 13 ELSE 8
           /\ (i + n + 1 <= Len(log)) => log[i + n + 1].pc = log[i].pc + 4
           /\ (i + n = Len(log)) =>
                 /\ components.registers.pc = log[i].pc + 4
                 /\ components.registers.b = 0

\* the address of the self-targeting DJNZ of the loaded program (0 if none)
LoopAddress ==
    LET at == {q \in {base + k : base \in StartAddresses, k \in {0, 2}} :
                  /\ MemGet(components.mem, q) = 16
                  /\ MemGet(components.mem, q + 1) = 254}
    IN  IF at = {} THEN 0 ELSE CHOOSE q \in at : TRUE

\* C9, second sentence (progress): the engine standing on a self-targeting
\* DJNZ with B = n (1 <= n, and n iterations left within MaxSteps)
\* eventually stands past it with B = 0.
C9_LoopFallsThrough ==
    (/\ status = "running" /\ components.registers.pc = LoopAddress
     /\ MemGet(components.mem, LoopAddress) = 16
     /\ MemGet(components.mem, LoopAddress + 1) = 254
     /\ components.registers.b >= 1
     /\ Len(log) + components.registers.b <= MaxSteps)
    ~> (/\ status = "running" /\ components.registers.pc = LoopAddress + 2
        /\ components.registers.b = 0)

\* C9 (DJNZ), as the specification states it: both sentences
C9_Djnz == C9_DjnzStep /\ []C9_LoopCount /\ C9_LoopFallsThrough

(***************************************************************************)
(* LDIR called directly on prepared registers and memory: SpecLdir         *)
(***************************************************************************)
\* a register pair as one 16-bit value
Pair(c, hi, lo) == combine_to_double_byte(c.registers[hi], c.registers[lo])

\* the bytes the source region holds
LdirSource == <<10, 20, 30, 40, 50>>

InitLdir ==
    /\ overflow_checks \in BOOLEAN
    /\ status = "init"
    /\ log = <<>>
    /\ \E bc \in {1, 2, 3, 4, 0, 3120, 3121} : \E hl \in {4096, 65531} :
       \E de \in {8192, 4097, 65533} :
          components =
              [RuntimeComponentsDefault EXCEPT
                  !.mem = Load(MemoryDefault, hl, SubSeq(LdirSource, 1, 4)),
                  !.registers.b = bc \div 256, !.registers.c = bc % 256,
                  !.registers.h = hl \div 256, !.registers.l = hl % 256,
                  !.registers.d = de \div 256, !.registers.e = de % 256]

NextLdir == Call("_0xEDB0", <<>>)

SpecLdir == InitLdir /\ [][NextLdir]_vars

\* C10 (LDIR effect), as the specification states it: with BC = n >= 1 and
\* source [HL0, HL0+n) and destination [DE0, DE0+n) disjoint and inside
\* memory, after LDIR mem[DE0+i] is the original mem[HL0+i] for every
\* 0 <= i < n, BC = 0, HL = HL0 + n, DE = DE0 + n, and no byte outside the
\* destination has changed.
C10_LdirEffect ==
    [][(Len(log') = Len(log) + 1 /\ Last(log').op = "execute"
                                 /\ Last(log').instruction = "_0xEDB0") =>
        LET n   == Pair(components, "b", "c")
            hl0 == Pair(components, "h", "l")
            de0 == Pair(components, "d", "e")
            source      == {hl0 + i : i \in 0..(n - 1)}
            destination == {de0 + i : i \in 0..(n - 1)}
        IN  (/\ n >= 1
             /\ source \cap destination = {}
             /\ \A index \in source \cup destination : InBounds(index))
            => /\ ~components'.panicked
               /\ \A i \in 0..(n - 1) :
                     MemGet(components'.mem, de0 + i) = MemGet(components.mem, hl0 + i)
               /\ Pair(components', "b", "c") = 0
               /\ Pair(components', "h", "l") = (hl0 + n) % 65536
               /\ Pair(components', "d", "e") = (de0 + n) % 65536
               /\ Differing(components.mem, components'.mem) \subseteq destination
    ]_vars

\* C11 (LDIR cost), as the specification states it: for BC = n >= 1 (source
\* and destination regions inside memory) one LDIR reports 16 + 21*(n-1)
\* cycles, e.g. 58 for n = 3, without a fault and without truncation of the
\* value for large n.
C11_LdirCost ==
    [][(Len(log') = Len(log) + 1 /\ Last(log').op = "execute"
                                 /\ Last(log').instruction = "_0xEDB0") =>
        LET n   == Pair(components, "b", "c")
            hl0 == Pair(components, "h", "l")
            de0 == Pair(components, "d", "e")
        IN  (/\ n >= 1
             /\ InBounds(hl0 + n - 1) /\ InBounds(de0 + n - 1))
            => /\ ~components'.panicked
               /\ Last(log').cycles = 16 + 21 * (n - 1)
    ]_vars

(***************************************************************************)
(* Instructions called directly one after another: the log keeps the       *)
(* registers each call started from                                        *)
(***************************************************************************)
\* let cycles = instruction.execute(&mut components, operands), at most
\* limit times
CallUpTo(inst, operands, limit) ==
    /\ status = "init"
    /\ Len(log) < limit
    /\ \E r \in {execute(inst, components, operands)} :
          /\ components' = r.components
          /\ status' = StatusAfter(r.components)
          /\ log' = Append(log, [op |-> "execute", instruction |-> inst,
                                 operands |-> operands, cycles |-> r.cycles,
                                 wrong_operands |-> r.wrong_operands,
                                 registers |-> components.registers,
                                 ok |-> ~r.components.panicked])
    /\ UNCHANGED overflow_checks

\* the registers the n-th call of the log left behind
RegistersAfter(n) ==
    IF n < Len(log) THEN log[n + 1].registers ELSE components.registers

(***************************************************************************)
(* INC r / DEC r called directly, as tests::inc_b and tests::dec_b do:     *)
(* SpecIncDec                                                              *)
(***************************************************************************)
\* INC B, INC C, INC A and the register each increments
IncInstructions == [_0x04 |-> "b", _0x0C |-> "c", _0x3C |-> "a"]

\* DEC B, DEC C, DEC L and the register each decrements
DecInstructions == [_0x05 |-> "b", _0x0D |-> "c", _0x2D |-> "l"]

InitIncDec ==
    /\ overflow_checks \in BOOLEAN
    /\ status = "init"
    /\ log = <<>>
    /\ \E v \in Byte : \E f \in {0, 255} :
          components = [RuntimeComponentsDefault EXCEPT
                           !.registers.a = v, !.registers.b = v,
                           !.registers.c = v, !.registers.l = v,
                           !.registers.f = f]

NextIncDec ==
    \E inst \in DOMAIN IncInstructions \cup DOMAIN DecInstructions :
        CallUpTo(inst, <<>>, MaxPairCalls)

SpecIncDec == InitIncDec /\ [][NextIncDec]_vars

\* C12 (8-bit inc and dec), as the specification states it: for every
\* register value v, INC r leaves (v+1) mod 256 and DEC r leaves (v-1) mod
\* 256 without a fault (0xFF -> 0x00, 0x00 -> 0xFF), and INC r followed by
\* DEC r leaves the register at its original value.
C12_IncDecInverse ==
    \A n \in 1..Len(log) :
        LET e == log[n]
        IN  /\ (e.instruction \in DOMAIN IncInstructions) =>
                  LET r == IncInstructions[e.instruction]
                  IN  /\ e.ok
                      /\ RegistersAfter(n)[r] = (e.registers[r] + 1) % 256
            /\ (e.instruction \in DOMAIN DecInstructions) =>
                  LET r == DecInstructions[e.instruction]
                  IN  /\ e.ok
                      /\ RegistersAfter(n)[r] = (e.registers[r] + 255) % 256
            /\ (/\ n < Len(log)
                /\ e.instruction \in DOMAIN IncInstructions
                /\ log[n + 1].instruction \in DOMAIN DecInstructions
                /\ DecInstructions[log[n + 1].instruction] = IncInstructions[e.instruction])
               => RegistersAfter(n + 1)[IncInstructions[e.instruction]]
                     = e.registers[IncInstructions[e.instruction]]

\* C13 (PC wraps modulo 0x10000), as the specification states it: an
\* iteration never faults while it fetches (skipping a prefix, reading an
\* operand, advancing past the instruction): standing on or reaching 0xFFFF
\* it reads there and advances PC to 0x0000; and an instruction that does not
\* write PC retires with PC = (p + its length) mod 0x10000.
C13_PcWraps ==
    [][(status = "running" /\ Len(log') = Len(log) + 1) =>
        LET e == Last(log')
        IN  /\ ~(status' = "panicked" /\ e.instruction = "none")
            /\ (status' = "running" /\ e.instruction \notin PcWriters) =>
                  components'.registers.pc
                     = (e.pc + (IF e.ns = "basic" THEN 1 ELSE 2)
                             + operand_count(e.instruction)) % 65536
    ]_vars

(***************************************************************************)
(* Memory through the absolute loads and stores: LD (nn),A (_0x32) and     *)
(* LD A,(nn) (_0x3A) called directly, on the addresses at both ends of the *)
(* address space and one in the middle.                                    *)
(***************************************************************************)
MemoryAddresses == {0, 4660, 65534, 65535}

MemoryValues == {0, 1, 90, 255}

InitMemory ==
    /\ overflow_checks \in BOOLEAN
    /\ status = "init"
    /\ log = <<>>
    /\ \E x \in MemoryValues :
          components = [RuntimeComponentsDefault EXCEPT !.registers.a = x]

NextMemory ==
    \E inst \in {"_0x32", "_0x3A"}, addr \in MemoryAddresses :
        CallUpTo(inst, <<addr % 256, addr \div 256>>, MaxPairCalls)

SpecMemory == InitMemory /\ [][NextMemory]_vars

\* C14 (memory is fully addressable), as the specification states it: a
\* store or a load at any address 0x0000..0xFFFF completes without a fault,
\* and a byte x written at an address is the byte a following read of that
\* address returns.
C14_FullyAddressable ==
    /\ \A n \in 1..Len(log) :
          (log[n].instruction \in {"_0x32", "_0x3A"} /\ Len(log[n].operands) = 2)
             => log[n].ok
    /\ (/\ Len(log) = 2
        /\ log[1].instruction = "_0x32"
        /\ log[2].instruction = "_0x3A"
        /\ log[1].operands = log[2].operands)
          => components.registers.a = log[1].registers.a

(***************************************************************************)
(* RLCA (_0x07) called directly on every accumulator value.                *)
(***************************************************************************)
RlcaFlags == {0, 1, 254, 255}

InitRlca ==
    /\ overflow_checks \in BOOLEAN
    /\ status = "init"
    /\ log = <<>>
    /\ \E a \in Byte, f \in RlcaFlags :
          components = [RuntimeComponentsDefault EXCEPT !.registers.a = a,
                                                        !.registers.f = f]

NextRlca == CallUpTo("_0x07", <<>>, MaxCalls)

SpecRlca == InitRlca /\ [][NextRlca]_vars

\* C15 (RLCA): for every accumulator value a and every prior flag state,
\* RLCA completes, leaves ((a << 1) mod 256) | (a >> 7) in the accumulator,
\* leaves Carry equal to the original bit 7 of a, and costs 4 cycles.
C15_Rlca ==
    \A n \in 1..Len(log) :
        log[n].instruction = "_0x07" =>
            LET a     == log[n].registers.a
                after == RegistersAfter(n)
            IN  /\ log[n].ok
                /\ log[n].cycles = 4
                /\ after.a = BitOr((a * 2) % 256, a \div 128)
                /\ get_carry(after.f) = FlagIf(a \div 128 = 1)

\* RLCA has run on 0x83 with Carry unset: 0x07 with Carry set
C15_Witness ==
    /\ Len(log) = 1
    /\ log[1].instruction = "_0x07"
    /\ log[1].registers.a = 131
    /\ get_carry(log[1].registers.f) = Unset
    /\ components.registers.a = 7
    /\ get_carry(components.registers.f) = Set

(***************************************************************************)
(* FlagsRegister called directly, and every instruction of the catalog     *)
(* called directly on flag bytes that have the unused bits 3 and 5 set or  *)
(* clear: SpecFlags                                                        *)
(***************************************************************************)
\* the bit each setter and getter works on (memory.rs 183-274)
FlagMask ==
    [carry |-> 1, add_subtract |-> 2, parity_overflow |-> 4,
     half_carry |-> 16, zero |-> 64, sign |-> 128]

FlagNames == DOMAIN FlagMask

\* flags.set_<flag>(value)
SetFlag(f, flag, value) ==
    CASE flag = "carry"           -> set_carry(f, value)
      [] flag = "add_subtract"    -> set_add_subtract(f, value)
      [] flag = "parity_overflow" -> set_parity_overflow(f, value)
      [] flag = "half_carry"      -> set_half_carry(f, value)
      [] flag = "zero"            -> set_zero(f, value)
      [] flag = "sign"            -> set_sign(f, value)

\* flags.get_<flag>()
GetFlag(f, flag) ==
    CASE flag = "carry"           -> get_carry(f)
      [] flag = "add_subtract"    -> get_add_subtract(f)
      [] flag = "parity_overflow" -> get_parity_overflow(f)
      [] flag = "half_carry"      -> get_half_carry(f)
      [] flag = "zero"            -> get_zero(f)
      [] flag = "sign"            -> get_sign(f)

\* components.registers.f.set_<flag>(value), as the tests call it
SetFlagCall(flag, value) ==
    /\ status = "init"
    /\ Len(log) < MaxCalls
    /\ components' = [components EXCEPT !.registers.f = SetFlag(@, flag, value)]
    /\ status' = "init"
    /\ log' = Append(log, [op |-> "set_flag", instruction |-> "none",
                           flag |-> flag, value |-> value,
                           registers |-> components.registers, ok |-> TRUE])
    /\ UNCHANGED overflow_checks

\* bits 3 and 5, which no flag is assigned to
UnusedBits == 40

\* F: reset, the unused bits one by one and together, the six flags, every bit
FlagBytes == {0, 8, 32, 40, 215, 255}

FlagOperands(inst) ==
    CASE operand_count(inst) = 0 -> {<<>>}
      [] operand_count(inst) = 1 -> {<<2>>, <<254>>}
      [] OTHER -> {<<2, 254>>}

InitFlags ==
    /\ overflow_checks \in BOOLEAN
    /\ status = "init"
    /\ log = <<>>
    /\ \E f \in FlagBytes, f_ \in {0, UnusedBits} :
          components = [RuntimeComponentsDefault EXCEPT !.registers.f = f,
                                                        !.registers.f_ = f_,
                                                        !.registers.c = 2]

NextFlags ==
    \/ \E flag \in FlagNames, value \in {Set, Unset} : SetFlagCall(flag, value)
    \/ \E inst \in Instructions : \E operands \in FlagOperands(inst) :
          CallUpTo(inst, operands, MaxCalls)

SpecFlags == InitFlags /\ [][NextFlags]_vars

\* C16 (flag bits are fixed and independent): a setter leaves its own bit
\* set or clear as asked and every other bit of F, and every other register,
\* as it was; each getter reports Set exactly when its bit of F is 1; no
\* instruction changes bits 3 and 5 of F or F' (EX AF,AF' exchanges the two
\* bytes whole), so when both have them clear at the start they have them
\* clear in every state reached.
C16_FlagBits ==
    /\ \A flag \in FlagNames :
          (GetFlag(components.registers.f, flag) = Set)
             <=> (BitAnd(components.registers.f, FlagMask[flag]) = FlagMask[flag])
    /\ \A n \in 1..Len(log) :
          LET before == log[n].registers
              after  == RegistersAfter(n)
          IN  /\ log[n].op = "set_flag" =>
                    LET mask == FlagMask[log[n].flag]
                    IN  /\ BitAnd(after.f, 255 - mask) = BitAnd(before.f, 255 - mask)
                        /\ BitAnd(after.f, mask)
                              = (IF log[n].value = Set THEN mask ELSE 0)
                        /\ GetFlag(after.f, log[n].flag) = log[n].value
                        /\ after = [before EXCEPT !.f = after.f]
              /\ log[n].op = "execute" =>
                    IF log[n].instruction = "_0x08"
                    THEN /\ BitAnd(after.f, UnusedBits) = BitAnd(before.f_, UnusedBits)
                         /\ BitAnd(after.f_, UnusedBits) = BitAnd(before.f, UnusedBits)
                    ELSE /\ BitAnd(after.f, UnusedBits) = BitAnd(before.f, UnusedBits)
                         /\ BitAnd(after.f_, UnusedBits) = BitAnd(before.f_, UnusedBits)
    /\ (/\ Len(log) > 0
        /\ BitAnd(log[1].registers.f, UnusedBits) = 0
        /\ BitAnd(log[1].registers.f_, UnusedBits) = 0)
          => /\ BitAnd(components.registers.f, UnusedBits) = 0
             /\ BitAnd(components.registers.f_, UnusedBits) = 0

\* set_zero(Unset) has run on F = 0xFF and left 0xBF
C16_Witness ==
    /\ Len(log) = 1
    /\ log[1].op = "set_flag"
    /\ log[1].flag = "zero"
    /\ log[1].value = Unset
    /\ log[1].registers.f = 255
    /\ components.registers.f = 191

(***************************************************************************)
(* AND n (_0xE6) called directly, as tests::and_n calls it: SpecAnd        *)
(***************************************************************************)
AndOperands == {0, 1, 15, 60, 128, 170, 240, 255}

\* F: no flag, Carry, Add/Subtract and Carry, every flag but Half-carry, all
AndFlags == {0, 1, 3, 239, 255}

InitAnd ==
    /\ overflow_checks \in BOOLEAN
    /\ status = "init"
    /\ log = <<>>
    /\ \E a \in Byte, f \in AndFlags :
          components = [RuntimeComponentsDefault EXCEPT !.registers.a = a,
                                                        !.registers.f = f]

NextAnd == \E n \in AndOperands : CallUpTo("_0xE6", <<n>>, MaxCalls)

SpecAnd == InitAnd /\ [][NextAnd]_vars

\* C17 (AND n): for every accumulator value a, operand n and prior flag
\* state, AND n completes with a & n in the accumulator, Carry cleared,
\* Add/Subtract cleared and Half-carry set.
C17_AndN ==
    \A k \in 1..Len(log) :
        (log[k].instruction = "_0xE6" /\ Len(log[k].operands) = 1) =>
            LET after == RegistersAfter(k)
            IN  /\ log[k].ok
                /\ after.a = BitAnd(log[k].registers.a, log[k].operands[1])
                /\ get_carry(after.f) = Unset
                /\ get_add_subtract(after.f) = Unset
                /\ get_half_carry(after.f) = Set

\* AND 0x0F has run on A = 0x3C with Carry and Add/Subtract set and
\* Half-carry clear
C17_Witness ==
    /\ Len(log) = 1
    /\ log[1].instruction = "_0xE6"
    /\ log[1].operands = <<15>>
    /\ log[1].registers.a = 60
    /\ log[1].registers.f = 3
    /\ components.registers.a = 12
    /\ get_half_carry(components.registers.f) = Set
    /\ get_carry(components.registers.f) = Unset

(***************************************************************************)
(* The accumulator instructions called directly: AND n, XOR C, XOR A,      *)
(* OR (HL), OR A, SUB n, SBC A,n, CP E, CP n: SpecAccumulator              *)
(***************************************************************************)
AccumulatorInstructions ==
    {"_0xE6", "_0xA9", "_0xAF", "_0xB6", "_0xB7", "_0xD6", "_0xDE", "_0xBB", "_0xFE"}

AccumulatorValues == {0, 1, 17, 18, 127, 128, 129, 255}

AccumulatorOperands == {0, 1, 2, 128, 129, 255}

\* F: no flag, Carry, Half-carry with Add/Subtract and Carry, every flag
AccumulatorFlags == {0, 1, 19, 255}

AccumulatorOperandsFor(inst) ==
    IF operand_count(inst) = 1 THEN {<<n>> : n \in AccumulatorOperands} ELSE {<<>>}

\* C and E hold r, and HL points at address 0x0000, which holds m
InitAccumulator ==
    /\ overflow_checks \in BOOLEAN
    /\ status = "init"
    /\ log = <<>>
    /\ \E a \in AccumulatorValues, f \in AccumulatorFlags :
       \E r \in {0, 129}, m \in {FillByte, 129} :
          components =
             [RuntimeComponentsDefault EXCEPT !.registers.a = a,
                                              !.registers.f = f,
                                              !.registers.c = r,
                                              !.registers.e = r,
                                              !.mem = MemSet(MemoryDefault, 0, m)]

NextAccumulator ==
    \E inst \in AccumulatorInstructions :
       \E operands \in AccumulatorOperandsFor(inst) :
          CallUpTo(inst, operands, MaxCalls)

SpecAccumulator == InitAccumulator /\ [][NextAccumulator]_vars

\* the operand of the call in log[k]: the immediate byte, the register, the
\* accumulator itself, or the byte HL points at (no instruction of
\* SpecAccumulator writes memory)
AccumulatorOperand(k) ==
    LET e == log[k]
    IN  CASE e.instruction \in {"_0xE6", "_0xD6", "_0xDE", "_0xFE"} -> e.operands[1]
          [] e.instruction = "_0xA9" -> e.registers.c
          [] e.instruction = "_0xBB" -> e.registers.e
          [] e.instruction = "_0xB6" ->
                MemGet(components.mem, combine_to_double_byte(e.registers.h, e.registers.l))
          [] OTHER -> e.registers.a

\* the 8-bit result of the call in log[k]: the accumulator afterwards, and
\* for the compares, which store nothing, the difference
AccumulatorResult(k) ==
    IF log[k].instruction \in {"_0xBB", "_0xFE"}
    THEN (log[k].registers.a - AccumulatorOperand(k) + 256) % 256
    ELSE RegistersAfter(k).a

\* C18 (accumulator operations recompute the flags), as the specification
\* states it: after AND n, XOR C, XOR A, OR (HL), OR A, SUB n, SBC A,n, CP E
\* or CP n, Zero is set iff the 8-bit result is 0, Sign equals bit 7 of the
\* result, and Parity/Overflow equals bit 7 of the operand.
C18_FlagsFromResult ==
    \A k \in 1..Len(log) :
        log[k].instruction \in AccumulatorInstructions =>
            LET f == RegistersAfter(k).f
            IN  /\ log[k].ok
                /\ get_zero(f) = FlagIf(AccumulatorResult(k) = 0)
                /\ get_sign(f) = FlagIf(AccumulatorResult(k) >= 128)
                /\ get_parity_overflow(f) = FlagIf(AccumulatorOperand(k) >= 128)

\* C19 (XOR and OR clear the arithmetic flags), as the specification states
\* it: after XOR C, XOR A, OR (HL) or OR A, whatever the flags were,
\* Half-carry, Carry and Add/Subtract are clear.
C19_XorOrClearFlags ==
    \A k \in 1..Len(log) :
        log[k].instruction \in {"_0xA9", "_0xAF", "_0xB6", "_0xB7"} =>
            LET f == RegistersAfter(k).f
            IN  /\ log[k].ok
                /\ get_half_carry(f) = Unset
                /\ get_carry(f) = Unset
                /\ get_add_subtract(f) = Unset

\* C20 (SBC A,n), as the specification states it: for every accumulator value
\* a, operand n and prior Carry c, SBC A,n completes with (a - n - c) mod 256
\* in the accumulator and reports 7 cycles.
C20_SbcAN ==
    \A k \in 1..Len(log) :
        log[k].instruction = "_0xDE" =>
            LET a == log[k].registers.a
                n == log[k].operands[1]
                c == IF get_carry(log[k].registers.f) = Set THEN 1 ELSE 0
            IN  /\ log[k].ok
                /\ log[k].cycles = 7
                /\ RegistersAfter(k).a = (a - n - c + 512) % 256

(***************************************************************************)
(* EXX (_0xD9) called directly on register files whose main and shadow     *)
(* registers all differ: SpecExx                                           *)
(***************************************************************************)
ExxValues == {0, 16, 96, 128, 200, 250}

\* a program image that EXX has to leave alone
ExxMemory == Load(MemoryDefault, 0, <<217, 217, 0>>)

InitExx ==
    /\ overflow_checks \in BOOLEAN
    /\ status = "init"
    /\ log = <<>>
    /\ \E x \in ExxValues, y \in ExxValues :
          components =
             [RuntimeComponentsDefault EXCEPT
                 !.mem = ExxMemory,
                 !.registers.a = 239, !.registers.f = 140,
                 !.registers.a_ = 18, !.registers.f_ = 65,
                 !.registers.i = 52,  !.registers.x = 86,
                 !.registers.b = x,      !.registers.c = x + 1,
                 !.registers.d = x + 2,  !.registers.e = x + 3,
                 !.registers.h = x + 4,  !.registers.l = x + 5,
                 !.registers.b_ = y + 1, !.registers.c_ = y + 2,
                 !.registers.d_ = y + 3, !.registers.e_ = y + 4,
                 !.registers.h_ = y + 5, !.registers.l_ = y]

NextExx == CallUpTo("_0xD9", <<>>, MaxPairCalls)

SpecExx == InitExx /\ [][NextExx]_vars

\* C21 (EXX): each call of EXX completes at cost 4 and leaves B, C, D, E, H,
\* L holding what their shadows held and the shadows holding what B, C, D, E,
\* H, L held, all six together, with every other register (A, F, A', F', I,
\* X, SP, PC, the interrupt state) and memory as before; two calls in a row
\* leave the register file the first call found.
C21_Exx ==
    /\ components.mem = ExxMemory
    /\ \A k \in 1..Len(log) :
          log[k].instruction = "_0xD9" =>
             LET before == log[k].registers
             IN  /\ log[k].ok
                 /\ log[k].cycles = 4
                 /\ RegistersAfter(k) =
                       [before EXCEPT !.b = before.b_, !.c = before.c_,
                                      !.d = before.d_, !.e = before.e_,
                                      !.h = before.h_, !.l = before.l_,
                                      !.b_ = before.b, !.c_ = before.c,
                                      !.d_ = before.d, !.e_ = before.e,
                                      !.h_ = before.h, !.l_ = before.l]
    /\ Len(log) = 2 => components.registers = log[1].registers

\* EXX has run twice on a register file whose B and B' differ
C21_Witness ==
    /\ Len(log) = 2
    /\ log[1].instruction = "_0xD9"
    /\ log[2].instruction = "_0xD9"
    /\ log[1].registers.b = 16
    /\ log[1].registers.b_ = 201
    /\ log[2].registers.b = 201
    /\ log[2].registers.l_ = 21
    /\ components.registers.b = 16

(***************************************************************************)
(* ADD HL,BC (_0x09), ADD HL,DE (_0x19) and ADD HL,HL (_0x29) called       *)
(* directly: SpecAddPair                                                   *)
(***************************************************************************)
\* the source pair of each addition
AddPairSource == [_0x09 |-> <<"b", "c">>, _0x19 |-> <<"d", "e">>, _0x29 |-> <<"h", "l">>]

PairValues == {0, 1, 255, 256, 4660, 32767, 32768, 65535}

InitAddPair ==
    /\ overflow_checks \in BOOLEAN
    /\ status = "init"
    /\ log = <<>>
    /\ \E hl \in PairValues, bc \in PairValues, de \in PairValues, f \in {0, 255} :
          components =
             [RuntimeComponentsDefault EXCEPT
                 !.registers.f = f,
                 !.registers.h = hl \div 256, !.registers.l = hl % 256,
                 !.registers.b = bc \div 256, !.registers.c = bc % 256,
                 !.registers.d = de \div 256, !.registers.e = de % 256]

NextAddPair == \E inst \in DOMAIN AddPairSource : CallUpTo(inst, <<>>, MaxCalls)

SpecAddPair == InitAddPair /\ [][NextAddPair]_vars

PairStepped ==
    [_0x03 |-> <<"b", "c", 1>>, _0x13 |-> <<"d", "e", 1>>, _0x23 |-> <<"h", "l", 1>>,
     _0x0B |-> <<"b", "c", -1>>, _0x2B |-> <<"h", "l", -1>>]

NextPairStep == \E inst \in DOMAIN PairStepped : CallUpTo(inst, <<>>, MaxCalls)

SpecPairStep == InitAddPair /\ [][NextPairStep]_vars

\* C23 (16-bit pair increment/decrement), as the specification states it:
\* INC rr and DEC rr complete without a fault at cost 6 and leave the pair,
\* read big-endian, holding (value + 1) mod 65536 and (value - 1) mod 65536,
\* with Half-carry, Parity/Overflow, Zero and Sign as they were.
C23_PairStep ==
    \A k \in 1..Len(log) :
        log[k].instruction \in DOMAIN PairStepped =>
            LET before == log[k].registers
                after  == RegistersAfter(k)
                p      == PairStepped[log[k].instruction]
                value  == before[p[1]] * 256 + before[p[2]]
            IN  /\ log[k].ok
                /\ log[k].cycles = 6
                /\ after[p[1]] * 256 + after[p[2]] = (value + p[3] + 65536) % 65536
                /\ BitAnd(after.f, 16 + 4 + 64 + 128) = BitAnd(before.f, 16 + 4 + 64 + 128)

(***************************************************************************)
(* LD DE,(nn) (_0xED5B) and LD (nn),HL (_0x22) called directly on a memory *)
(* with a different byte at each address used: SpecPairMemory              *)
(***************************************************************************)
\* 0x0000, 0x02FE, 0x1234, 0x1235 and 0xFE02 hold 99, 77, 111, 122 and 88
PairMemory ==
    (0 :> 99) @@ (766 :> 77) @@ (4660 :> 111) @@ (4661 :> 122) @@ (65026 :> 88)

\* (first operand byte, second operand byte)
PairMemoryOperands == {<<2, 254>>, <<254, 2>>, <<0, 0>>, <<52, 18>>}

InitPairMemory ==
    /\ overflow_checks \in BOOLEAN
    /\ status = "init"
    /\ log = <<>>
    /\ \E d \in {0, 7, 255}, e \in {0, 9}, h \in {0, 18}, l \in {52, 255} :
          components =
             [RuntimeComponentsDefault EXCEPT
                 !.mem = PairMemory,
                 !.registers.d = d, !.registers.e = e,
                 !.registers.h = h, !.registers.l = l]

NextPairMemory ==
    \E inst \in {"_0xED5B", "_0x22"}, operands \in PairMemoryOperands :
        CallUpTo(inst, operands, MaxCalls)

SpecPairMemory == InitPairMemory /\ [][NextPairMemory]_vars

\* C24 (LD DE,(nn)), as the specification states it: with operand bytes
\* (first, second) the byte at address second * 256 + first is loaded into E,
\* D keeps the value it had, and memory and every other register are as
\* before.
C24_LdDeFromAddress ==
    \A k \in 1..Len(log) :
        (log[k].instruction = "_0xED5B" /\ Len(log[k].operands) = 2) =>
            LET before == log[k].registers
                nn     == log[k].operands[2] * 256 + log[k].operands[1]
            IN  /\ log[k].ok
                /\ RegistersAfter(k) = [before EXCEPT !.e = MemGet(PairMemory, nn)]
                /\ components.mem = PairMemory

\* C25 (LD (nn),HL), as the specification states it: with operand bytes
\* (first, second) the byte L is stored at address second * 256 + first, no
\* other memory byte changes (address nn + 1 in particular), and no register
\* changes.
C25_LdAddressFromHl ==
    \A k \in 1..Len(log) :
        (log[k].instruction = "_0x22" /\ Len(log[k].operands) = 2) =>
            LET before == log[k].registers
                nn     == log[k].operands[2] * 256 + log[k].operands[1]
            IN  /\ log[k].ok
                /\ components.mem = MemSet(PairMemory, nn, before.l)
                /\ RegistersAfter(k) = before

(***************************************************************************)
(* The conditional jumps and returns called directly, with a return        *)
(* address on the stack: SpecBranch                                        *)
(***************************************************************************)
\* JR NZ, JR NC, DJNZ, RET NZ, RET Z, RET C, RET M, RET P, JP NZ, JP P
ConditionalInstructions ==
    {"_0x20", "_0x30", "_0x10", "_0xC0", "_0xC8", "_0xD8", "_0xF8", "_0xF0",
     "_0xC2", "_0xF2"}

BranchOperands(inst) ==
    CASE operand_count(inst) = 0 -> {<<>>}
      [] operand_count(inst) = 1 -> {<<2>>, <<254>>}
      [] OTHER -> {<<170, 255>>, <<2, 254>>}

\* B: DJNZ falls through from 1 and loops from 2 and 255
BranchCounters == {1, 2, 255}

\* the return address 0x1234 sits at SP = 0x0100
InitBranch ==
    /\ overflow_checks \in BOOLEAN
    /\ status = "init"
    /\ log = <<>>
    /\ \E f \in JumpFlags, b \in BranchCounters, pc \in {3, 32768} :
          components =
             [RuntimeComponentsDefault EXCEPT
                 !.mem = Load(MemoryDefault, 256, <<52, 18>>),
                 !.registers.sp = 256,
                 !.registers.f = f, !.registers.b = b, !.registers.pc = pc]

NextBranch ==
    \E inst \in ConditionalInstructions : \E operands \in BranchOperands(inst) :
        CallUpTo(inst, operands, MaxCalls)

SpecBranch == InitBranch /\ [][NextBranch]_vars

\* C26 (conditional control flow costs less when not taken), as the
\* specification states it: whenever a conditional jump or return has been
\* taken (it moved PC), the same instruction with the same operands on the
\* same state but for flags and counter under which it falls through (PC
\* stays) reports a strictly lower cost.
C26_NotTakenCostsLess ==
    \A k \in 1..Len(log) :
        (/\ log[k].instruction \in ConditionalInstructions
         /\ RegistersAfter(k).pc # log[k].registers.pc) =>
            \A f \in JumpFlags, b \in BranchCounters :
                LET before == [components EXCEPT
                                  !.panicked = FALSE,
                                  !.registers = [log[k].registers EXCEPT !.f = f, !.b = b]]
                    other  == execute(log[k].instruction, before, log[k].operands)
                IN  (/\ ~other.components.panicked
                     /\ other.components.registers.pc = before.registers.pc)
                        => other.cycles < log[k].cycles

\* the second byte of IM 0, IM 1 and IM 2 after the lead-in 0xED, and the
\* mode each selects
InterruptModeOpcodes == (70 :> 0) @@ (86 :> 1) @@ (94 :> 2)

\* C27 (interrupt mode selection), as the specification states it: for each
\* n in {0, 1, 2} an iteration that finds ED 46, ED 56 or ED 5E at PC retires
\* an instruction that leaves the interrupt-mode selector at n and every
\* other register but PC, every flag and every memory byte as they were; and
\* the selector is 0, 1 or 2 in every state.
C27_InterruptMode ==
    [][/\ components'.registers.interrupt_mode \in {0, 1, 2}
       /\ (status = "running" /\ Len(log') = Len(log) + 1) =>
            LET p == components.registers.pc
            IN  (/\ InBounds(p + 1)
                 /\ MemGet(components.mem, p) = 237
                 /\ MemGet(components.mem, p + 1) \in DOMAIN InterruptModeOpcodes) =>
                    /\ status' = "running"
                    /\ Last(log').op = "retired"
                    /\ components'.registers.interrupt_mode
                          = InterruptModeOpcodes[MemGet(components.mem, p + 1)]
                    /\ components'.mem = components.mem
                    /\ \A r \in DOMAIN components.registers \ {"pc", "interrupt_mode"} :
                          components'.registers[r] = components.registers[r]
    ]_vars

(***************************************************************************)
(* Every instruction of the catalog called directly on each setting of the *)
(* interrupt flip-flops: SpecInterrupt                                     *)
(***************************************************************************)
InitInterrupt ==
    /\ overflow_checks \in BOOLEAN
    /\ status = "init"
    /\ log = <<>>
    /\ \E iff1 \in BOOLEAN, iff2 \in BOOLEAN :
          components = [RuntimeComponentsDefault EXCEPT !.registers.iff1 = iff1,
                                                        !.registers.iff2 = iff2,
                                                        !.registers.c = 2]

NextInterrupt ==
    \E inst \in Instructions : \E operands \in FlagOperands(inst) :
        CallUpTo(inst, operands, MaxCalls)

SpecInterrupt == InitInterrupt /\ [][NextInterrupt]_vars

\* C28 (interrupt flip-flops move together): DI leaves iff1 and iff2 both
\* false, EI leaves both true, every other instruction leaves both as they
\* were, and when they start equal (both false after reset) they are equal
\* in every state reached.
C28_FlipFlops ==
    /\ \A k \in 1..Len(log) :
          LET before == log[k].registers
              after  == RegistersAfter(k)
          IN  CASE log[k].instruction = "_0xF3" ->
                      log[k].ok /\ ~after.iff1 /\ ~after.iff2
                [] log[k].instruction = "_0xFB" ->
                      log[k].ok /\ after.iff1 /\ after.iff2
                [] OTHER ->
                      after.iff1 = before.iff1 /\ after.iff2 = before.iff2
    /\ (Len(log) > 0 /\ log[1].registers.iff1 = log[1].registers.iff2)
          => components.registers.iff1 = components.registers.iff2
    /\ RegistersDefault.iff1 = FALSE /\ RegistersDefault.iff2 = FALSE

\* EI has run on the reset state
C28_Witness ==
    /\ Len(log) = 1
    /\ log[1].instruction = "_0xFB"
    /\ ~log[1].registers.iff1 /\ ~log[1].registers.iff2
    /\ components.registers.iff1 /\ components.registers.iff2

\* the components with the interrupt state replaced
WithInterruptState(c, iff1, iff2, mode) ==
    [c EXCEPT !.registers.iff1 = iff1, !.registers.iff2 = iff2,
              !.registers.interrupt_mode = mode]

\* C29 (interrupt state never influences execution): from a running state
\* and from the state that differs from it only in iff1, iff2 and the
\* interrupt-mode selector, one loop iteration ends the same way, reports
\* the same instruction, operands and cycle cost, and leaves PC, SP, every
\* register and flag and every memory byte the same; only the interrupt
\* fields may differ.  Applied iteration by iteration, this covers any
\* number of engine steps.
C29_InterruptStateInert ==
    [][(status = "running" /\ Len(log') = Len(log) + 1) =>
        \A iff1 \in BOOLEAN, iff2 \in BOOLEAN, mode \in {0, 1, 2} :
            LET other == LoopIteration(WithInterruptState(components, iff1, iff2, mode))
            IN  /\ WithInterruptState(other.components, FALSE, FALSE, 0)
                      = WithInterruptState(components', FALSE, FALSE, 0)
                /\ [other.entry EXCEPT !.op = Last(log').op] = Last(log')
                /\ (other.outcome = "retired") = (status' = "running")
                /\ (other.outcome = "panicked") = (status' = "panicked")
    ]_vars

\* EI and then CP n have retired: the second ran with both flip-flops set
C29_Witness ==
    /\ Len(log) = 2
    /\ log[1].instruction = "_0xFB"
    /\ log[2].instruction = "_0xFE"
    /\ log[2].op = "retired"
    /\ components.registers.iff1
    /\ components.registers.iff2

(***************************************************************************)
(* Runtime::load_rom_from_bytes.  A byte buffer is its length, the bytes   *)
(* at a few marked indices, and the byte every other index holds.          *)
(***************************************************************************)
\* bytes[i]
RomByte(rom, i) == IF i \in DOMAIN rom.marks THEN rom.marks[i] ELSE rom.fill

\* a loop `while i < to { mem.locations[i] = bytes[i - offset]; i += 1 }`
\* started at i = from; every index is in bounds of both arrays
CopyRom(c, rom, from, to, offset) ==
    LET region == from..(to - 1)
    IN  [c EXCEPT !.mem =
            [a \in (DOMAIN c.mem \ region)
                      \cup {b \in region : RomByte(rom, b - offset) # FillByte} |->
                IF a \in region THEN RomByte(rom, a - offset) ELSE c.mem[a]]]

\* load_os_rom(bytes): while i < 0x4000
load_os_rom(c, rom) == CopyRom(c, rom, 0, 16384, 0)

\* load_expansion_rom(bytes): i = 0xC000; while i < 0xFFFF
load_expansion_rom(c, rom) == CopyRom(c, rom, 49152, 65535, 49152)

\* &bytes[0x4000..]
SecondHalf(rom) ==
    [len   |-> rom.len - 16384,
     fill  |-> rom.fill,
     marks |-> [i \in {j - 16384 : j \in {m \in DOMAIN rom.marks : m >= 16384}} |->
                   rom.marks[i + 16384]]]

\* load_rom_from_bytes that reports any other length and carries on
load_rom_from_bytes_reporting_only(c, rom) ==
    CASE rom.len = 16384 -> load_os_rom(c, rom)
      [] rom.len = 32768 -> load_expansion_rom(load_os_rom(c, rom), SecondHalf(rom))
      [] OTHER -> c

\* load_rom_from_bytes(bytes): any other length fails the assert
load_rom_from_bytes(c, rom) ==
    CASE rom.len = 16384 -> load_os_rom(c, rom)
      [] rom.len = 32768 -> load_expansion_rom(load_os_rom(c, rom), SecondHalf(rom))
      [] OTHER -> Panic(c)

\* runtime.load_rom_from_bytes(bytes)
LoadRomCall(rom) ==
    /\ status = "init"
    /\ Len(log) < MaxCalls
    /\ components' = load_rom_from_bytes(components, rom)
    /\ status' = StatusAfter(components')
    /\ log' = Append(log, [op |-> "load_rom", rom |-> rom, mem |-> components.mem,
                           ok |-> ~components'.panicked])
    /\ UNCHANGED overflow_checks

\* buffers of 16 KiB, of 32 KiB and of another size, with a byte v at the
\* first and last index of each half
RomBuffers ==
    {[len   |-> len,
      fill  |-> fill,
      marks |-> [i \in {j \in {0, 16383, 16384, 32766, 32767} : j < len} |->
                    (v + i) % 256]] :
        len \in {16384, 32768, 16383}, fill \in {FillByte, 0}, v \in {2, 129, 255}}

\* memory before the load: as constructed, or with a byte on each side of
\* every boundary of the two mapped regions
RomMemories ==
    {MemoryDefault,
     (0 :> 7) @@ (16383 :> 7) @@ (16384 :> 7) @@ (49151 :> 7) @@ (49152 :> 7)
              @@ (65534 :> 7),
     (1 :> 9) @@ (32768 :> 9),
     (16385 :> 0) @@ (49150 :> 0) @@ (65533 :> 0)}

InitRom ==
    /\ overflow_checks \in BOOLEAN
    /\ status = "init"
    /\ log = <<>>
    /\ \E mem \in RomMemories :
          components = [RuntimeComponentsDefault EXCEPT !.mem = mem]

NextRom == \E rom \in RomBuffers : LoadRomCall(rom)

SpecRom == InitRom /\ [][NextRom]_vars

\* C30 (ROM mapping), as the specification states it: loading a 16 KiB
\* buffer completes with mem[a] = bytes[a] for every a in 0x0000..0x3FFF
\* and every other address as before; loading a 32 KiB buffer completes
\* with that and mem[0xC000 + i] = bytes[0x4000 + i] for every i in
\* 0..0x3FFF, through address 0xFFFF, and 0x4000..0xBFFF as before.
C30_RomMapping ==
    (Len(log) = 1 /\ log[1].op = "load_rom" /\ log[1].rom.len \in {16384, 32768}) =>
        LET rom    == log[1].rom
            before == log[1].mem
            mapped == IF rom.len = 16384 THEN 0..16383
                      ELSE (0..16383) \cup (49152..65535)
        IN  /\ log[1].ok
            /\ \A a \in 0..16383 : MemGet(components.mem, a) = RomByte(rom, a)
            /\ rom.len = 32768 =>
                  \A i \in 0..16383 :
                      /\ InBounds(49152 + i)
                      /\ MemGet(components.mem, 49152 + i) = RomByte(rom, 16384 + i)
            /\ \A a \in (DOMAIN components.mem \cup DOMAIN before) \ mapped :
                  MemGet(components.mem, a) = MemGet(before, a)

(***************************************************************************)
(* main: a ROM is loaded, then run() is called: SpecRomRun                 *)
(***************************************************************************)
\* one buffer of each length and filling
RunRomBuffers == {rom \in RomBuffers : rom.marks[0] = 2}

NextRomRun ==
    \/ \E rom \in RunRomBuffers : LoadRomCall(rom)
    \/ Run
    \/ Step

SpecRomRun == InitRom /\ [][NextRomRun]_vars

\* C31 (malformed ROM size is fatal before execution): a call of
\* load_rom_from_bytes with a buffer whose length is neither 0x4000 nor
\* 0x8000 fails, leaves the engine in the fatal state with every memory byte
\* as it was before the call, and is the last thing the engine does: no
\* iteration of the fetch loop follows it.
C31_MalformedRomFatal ==
    \A k \in 1..Len(log) :
        (log[k].op = "load_rom" /\ log[k].rom.len \notin {16384, 32768}) =>
            /\ ~log[k].ok
            /\ status = "panicked"
            /\ k = Len(log)
            /\ components.mem = log[k].mem
            /\ components.registers = RegistersDefault

\* a buffer one byte short of 16 KiB has been handed to a memory that held
\* bytes of its own
C31_Witness ==
    /\ Len(log) = 1
    /\ log[1].op = "load_rom"
    /\ log[1].rom.len = 16383
    /\ log[1].mem # MemoryDefault
    /\ status = "panicked"

\* C32 (run never stops by itself), as the specification states it: the
\* first opcode fetched after run(start) is the byte at start, and the only
\* way the loop ends is the unmapped-opcode exit: no state is reached in
\* which an arithmetic, stack-pointer or memory-index fault has ended it.
C32_OnlyUnmappedExit ==
    /\ status \in {"init", "running", "exited"}
    /\ ~components.panicked
    /\ Len(log) > 0 => log[1].pc \in StartAddresses
    /\ status = "exited" => Last(log).instruction = "unimplemented"
    /\ \A k \in 1..Len(log) : log[k].op = "exited" => k = Len(log)

\* C33 (OR semantics), as the specification states it: OR (HL) leaves
\* A | mem[HL] in the accumulator and OR A leaves the accumulator as it was.
C33_OrSemantics ==
    \A k \in 1..Len(log) :
        LET a == log[k].registers.a
        IN  /\ log[k].instruction = "_0xB6" =>
                  /\ log[k].ok
                  /\ RegistersAfter(k).a = BitOr(a, AccumulatorOperand(k))
            /\ log[k].instruction = "_0xB7" =>
                  /\ log[k].ok
                  /\ RegistersAfter(k).a = a

\* the flag each conditional instruction is named after, as its mask in F,
\* and the value (Set or Unset) its mnemonic asks for:
\* JR NZ, RET NZ, RET Z, JR NC, RET C, JP P, RET P, RET M
MnemonicCondition ==
    [_0x20 |-> <<64, Unset>>, _0xC0 |-> <<64, Unset>>, _0xC8 |-> <<64, Set>>,
     _0x30 |-> <<1, Unset>>,  _0xD8 |-> <<1, Set>>,
     _0xF2 |-> <<128, Unset>>, _0xF0 |-> <<128, Unset>>, _0xF8 |-> <<128, Set>>]

\* C34 (each conditional instruction tests the condition its mnemonic
\* names), as the specification states it: when the named flag has the value
\* the mnemonic asks for, a relative jump leaves PC + d (d signed), JP leaves
\* the operand address, and a return leaves the popped address with SP
\* raised by 2; otherwise PC and SP are as before; memory is as before in
\* both cases.
C34_MnemonicConditions ==
    \A k \in 1..Len(log) :
        log[k].instruction \in DOMAIN MnemonicCondition =>
            LET inst   == log[k].instruction
                before == log[k].registers
                after  == RegistersAfter(k)
                cond   == MnemonicCondition[inst]
                holds  == FlagIf(BitAnd(before.f, cond[1]) = cond[1]) = cond[2]
            IN  /\ log[k].ok
                /\ components.mem = Load(MemoryDefault, 256, <<52, 18>>)
                /\ IF ~holds
                   THEN after.pc = before.pc /\ after.sp = before.sp
                   ELSE CASE inst \in {"_0x20", "_0x30"} ->
                               /\ after.pc = (before.pc + signed(log[k].operands[1])
                                                + 65536) % 65536
                               /\ after.sp = before.sp
                          [] inst = "_0xF2" ->
                               /\ after.pc = log[k].operands[2] * 256 + log[k].operands[1]
                               /\ after.sp = before.sp
                          [] OTHER ->
                               /\ after.pc = 4660
                               /\ after.sp = before.sp + 2

\* the loads of one register from the byte a register pair points at:
\* LD A,(DE), LD A,(HL), LD C,(HL), LD D,(HL), LD E,(HL)
LoadMemoryInstructions == {"_0x1A", "_0x7E", "_0x4E", "_0x56", "_0x5E"}

NextLoadMemory ==
    \E inst \in LoadMemoryInstructions : CallUpTo(inst, <<>>, MaxPairCalls)

SpecLoadMemory == InitPairMemory /\ [][NextLoadMemory]_vars

\* C35 (register loads through a pair), as the specification states it:
\* LD A,(DE) leaves in A the byte at D * 256 + E; LD A,(HL), LD C,(HL),
\* LD D,(HL) and LD E,(HL) leave in their register the byte at H * 256 + L;
\* memory, the flags and every other register are as before.
C35_LoadThroughPair ==
    \A k \in 1..Len(log) :
        log[k].instruction \in LoadMemoryInstructions =>
            LET inst   == log[k].instruction
                before == log[k].registers
                de     == before.d * 256 + before.e
                hl     == before.h * 256 + before.l
            IN  /\ log[k].ok
                /\ components.mem = PairMemory
                /\ RegistersAfter(k) =
                      CASE inst = "_0x1A" -> [before EXCEPT !.a = MemGet(PairMemory, de)]
                        [] inst = "_0x7E" -> [before EXCEPT !.a = MemGet(PairMemory, hl)]
                        [] inst = "_0x4E" -> [before EXCEPT !.c = MemGet(PairMemory, hl)]
                        [] inst = "_0x56" -> [before EXCEPT !.d = MemGet(PairMemory, hl)]
                        [] OTHER          -> [before EXCEPT !.e = MemGet(PairMemory, hl)]

\* C36 (SRL B through the engine), as the specification states it: an
\* iteration at PC = p with mem[p] = 0xCB and mem[p+1] = 0x38 retires SRL B
\* with no operand byte: B is shifted right by one, Carry is the old bit 0
\* of B, and PC is p + 2, so that the byte at p + 2 is the next opcode.
C36_SrlBWholeInstruction ==
    [][(status = "running" /\ Len(log') = Len(log) + 1) =>
        LET p == components.registers.pc
            b == components.registers.b
        IN  (/\ InBounds(p + 1)
             /\ MemGet(components.mem, p) = 203
             /\ MemGet(components.mem, p + 1) = 56) =>
                /\ status' = "running"
                /\ Last(log').instruction = "_0xCB38"
                /\ Last(log').operands = <<>>
                /\ components'.registers.b = b \div 2
                /\ BitAnd(components'.registers.f, 1) = b % 2
                /\ components'.registers.pc = (p + 2) % 65536
    ]_vars

\* C37 (LDIR terminates), as the specification states it: for every initial
\* BC, 0 included, with HL and DE inside memory, one LDIR returns with
\* BC = 0 and without a fault.
C37_LdirTerminates ==
    [][(Len(log') = Len(log) + 1 /\ Last(log').op = "execute"
                                 /\ Last(log').instruction = "_0xEDB0") =>
        ((/\ InBounds(Pair(components, "h", "l"))
          /\ InBounds(Pair(components, "d", "e")))
            => /\ ~components'.panicked
               /\ status' # "panicked"
               /\ Pair(components', "b", "c") = 0)
    ]_vars

\* C38 (half-carry of the 16-bit pair addition), as the specification states
\* it: ADD HL,BC, ADD HL,DE and ADD HL,HL leave Half-carry set exactly when
\* bit 3 (mask 0x0008) is set in both 16-bit operands, so that it is set
\* for operands such as 0x00FF and 0x00FF.
C38_PairHalfCarry ==
    \A k \in 1..Len(log) :
        log[k].instruction \in DOMAIN AddPairSource =>
            LET before == log[k].registers
                src    == AddPairSource[log[k].instruction]
                x      == before.h * 256 + before.l
                y      == before[src[1]] * 256 + before[src[2]]
            IN  /\ log[k].ok
                /\ get_half_carry(RegistersAfter(k).f)
                      = FlagIf(Bit(x, 3) = 1 /\ Bit(y, 3) = 1)

\* the instruction objects basic.rs defines, by the opcode byte each is
\* named after
BasicCatalog ==
    (0 :> "_0x00") @@ (1 :> "_0x01") @@ (2 :> "_0x02") @@ (3 :> "_0x03") @@
    (4 :> "_0x04") @@ (5 :> "_0x05") @@ (6 :> "_0x06") @@ (7 :> "_0x07") @@
    (8 :> "_0x08") @@ (9 :> "_0x09") @@ (11 :> "_0x0B") @@ (12 :> "_0x0C") @@
    (13 :> "_0x0D") @@ (14 :> "_0x0E") @@ (16 :> "_0x10") @@ (17 :> "_0x11") @@
    (19 :> "_0x13") @@ (24 :> "_0x18") @@ (25 :> "_0x19") @@ (26 :> "_0x1A") @@
    (32 :> "_0x20") @@ (33 :> "_0x21") @@ (34 :> "_0x22") @@ (35 :> "_0x23") @@
    (41 :> "_0x29") @@ (43 :> "_0x2B") @@ (45 :> "_0x2D") @@ (47 :> "_0x2F") @@
    (48 :> "_0x30") @@ (49 :> "_0x31") @@ (50 :> "_0x32") @@ (54 :> "_0x36") @@
    (58 :> "_0x3A") @@ (60 :> "_0x3C") @@ (62 :> "_0x3E") @@ (65 :> "_0x41") @@
    (71 :> "_0x47") @@ (76 :> "_0x4C") @@ (78 :> "_0x4E") @@ (86 :> "_0x56") @@
    (94 :> "_0x5E") @@ (103 :> "_0x67") @@ (111 :> "_0x6F") @@ (112 :> "_0x70") @@
    (113 :> "_0x71") @@ (114 :> "_0x72") @@ (115 :> "_0x73") @@ (119 :> "_0x77") @@
    (120 :> "_0x78") @@ (121 :> "_0x79") @@ (124 :> "_0x7C") @@ (125 :> "_0x7D") @@
    (126 :> "_0x7E") @@ (169 :> "_0xA9") @@ (175 :> "_0xAF") @@ (182 :> "_0xB6") @@
    (183 :> "_0xB7") @@ (187 :> "_0xBB") @@ (192 :> "_0xC0") @@ (193 :> "_0xC1") @@
    (194 :> "_0xC2") @@ (195 :> "_0xC3") @@ (197 :> "_0xC5") @@ (200 :> "_0xC8") @@
    (201 :> "_0xC9") @@ (205 :> "_0xCD") @@ (209 :> "_0xD1") @@ (213 :> "_0xD5") @@
    (214 :> "_0xD6") @@ (216 :> "_0xD8") @@ (217 :> "_0xD9") @@ (222 :> "_0xDE") @@
    (229 :> "_0xE5") @@ (230 :> "_0xE6") @@ (235 :> "_0xEB") @@ (240 :> "_0xF0") @@
    (242 :> "_0xF2") @@ (243 :> "_0xF3") @@ (245 :> "_0xF5") @@ (248 :> "_0xF8") @@
    (251 :> "_0xFB") @@ (254 :> "_0xFE")

\* C39 (every basic instruction is dispatched), as the specification states
\* it: an iteration that fetches the opcode byte of an instruction object of
\* the basic catalog (0x02, 0x03, 0x0B, 0xC2 and 0xF0 among them) executes
\* that instruction and does not end in the unmapped-opcode exit.
C39_CatalogDispatched ==
    \A k \in 1..Len(log) :
        (log[k].ns = "basic" /\ log[k].byte \in DOMAIN BasicCatalog) =>
            /\ log[k].op # "exited"
            /\ log[k].instruction = BasicCatalog[log[k].byte]

(***************************************************************************)
(* The engine on the programs of Spec and on the same programs behind      *)
(* XOR (HL) at address 0, which leaves A = 0xB6 with Sign set, so that the *)
(* conditional parts of the instructions are entered: SpecShape            *)
(***************************************************************************)
ShapeMemories ==
    {Load(MemoryDefault, 0, <<182>> \o program) : program \in DecodePrograms}

InitShape == Init \/ InitEngine(ShapeMemories)

SpecShape == InitShape /\ [][Next]_vars

\* C40 (operand shapes agree): in an engine run every instruction taken from
\* one of the four tables that retires has received as many operand bytes
\* as its operand_count says, and no execute takes a wrong-operands branch,
\* the panic of SUB n and SBC A,n included.
C40_OperandShapesAgree ==
    \A k \in 1..Len(log) :
        /\ ~log[k].wrong_operands
        /\ log[k].op = "retired" =>
              /\ log[k].instruction \in Instructions
              /\ Len(log[k].operands) = operand_count(log[k].instruction)

\* XOR (HL) has set Sign and JP P,0xFE02 behind it has matched its two
\* operand bytes and jumped
C40_Witness ==
    /\ Len(log) = 2
    /\ log[1].instruction = "_0xB6"
    /\ log[2].instruction = "_0xF2" /\ log[2].op = "retired"
    /\ log[2].operands = <<2, 254>>
    /\ components.registers.pc = 65026

====
